---- MODULE Spec2Model ----
(***************************************************************************)
(* Model of the multi-provider LLM pipeline of backend/agents:             *)
(* the provider registry and credential selector (cloud/cloud_constants,   *)
(* ideas_orchestator/common, ideas_orchestator/utils, generate_ideas/utils),*)
(* the response gateway (ideas_orchestator/LLM_response) and the idea      *)
(* search tree with judge and meta-judge (ideas_orchestator/generate_ideas).*)
(*                                                                         *)
(* A text is a sequence of tokens.  random.choice(seq) is modelled by a    *)
(* raw draw r and returns seq[(r % len(seq)) + 1].  What the remote        *)
(* chat-completion call does is an input: it answers with a text or fails  *)
(* with an exception.                                                      *)
(***************************************************************************)
EXTENDS Integers, Sequences, FiniteSets, TLC

VARIABLES
    api_keys,       \* cloud_constants.api_keys: provider name -> list of keys
    env,            \* os.environ restricted to the API-key slots
    sel,            \* the last call of a credential selector and its outcome
    gw,             \* the last direct call of obtener_respuesta and its outcome
    human_list,     \* LLM_response.human_list, the module-level cache
    clock,          \* the time colombia_now() returned last
    pc,             \* where the single thread of the process is
    args,           \* X, Y, N_JUICIOS of the running proceso_de_metajuicio
    n, i, j,        \* the loop indices of generate_ideas.py, lines 173, 77, 94
    chosen,         \* cloud, model of line 80
    para,           \* the list the comprehension of LLM_response.py, line 26, builds
    idea_actual,
    ideas_refinadas_finales,
    lista_de_veredictos,
    analisis_final,
    meta_veredicto_final,
    tree,           \* gateway calls of the running arbol_busqueda_ideas, by kind
    hv,             \* human_variations: paraphrase calls made, lists returned
    runs,           \* runs of proceso_de_metajuicio started so far
    mock,           \* the mocked random source and chat-completion answers, if any
    pos,            \* how far the run has read the mock's two tapes
    rec,            \* what the mock has recorded of this run
    prev,           \* the previous run under the mock: how it started and ended
    call,           \* the gateway call the pipeline makes or has made last
    inflight,       \* chat-completion calls sent and not answered yet
    brief,          \* the last call of prompt_to_llm_engineer and its outcome
    active_connections, \* ConnectionManager.active_connections: group -> list
    chat_users,     \* the keys of router.chat_users
    endpoint,       \* each chat endpoint handler: where it is and its locals
    active_streams, \* MLWebSocketService.active_streams: stream id -> task
    client_streams, \* MLWebSocketService.client_streams: websocket -> list of ids
    tasks,          \* the prediction-stream tasks created so far
    ml_endpoint,    \* each ML endpoint handler: where it is and its locals
    request         \* the running handle_ml_request: its queue, task and sends

selVars == <<api_keys, env, sel, gw>>
loopVars == <<args, n, i, j, chosen, para, idea_actual, ideas_refinadas_finales,
              lista_de_veredictos, analisis_final, meta_veredicto_final, tree>>
mockVars == <<mock, pos, rec, prev>>
callVars == <<call, inflight>>
agentVars == <<selVars, human_list, clock, pc, loopVars, hv, runs, mockVars, callVars, brief>>
chatVars == <<active_connections, chat_users, endpoint>>
streamVars == <<active_streams, client_streams, tasks, ml_endpoint>>
appVars == <<chatVars, streamVars, request>>
vars == <<agentVars, appVars>>

----------------------------------------------------------------------------
(* Bounds of the model *)

MaxCredentials == 2     \* credentials a registry holds, all providers together
MaxX == 2               \* branches of a search tree
MaxY == 1               \* refinements of a branch
MaxN == 2               \* search trees of a meta-judgment
MaxRuns == 1            \* runs of proceso_de_metajuicio without a mock
MaxClock == 1           \* the latest time colombia_now() returns
MaxMockRuns == 2        \* runs of proceso_de_metajuicio under a mock
MaxChatClients == 2     \* websockets that open the chat endpoint
MaxStreamClients == 2   \* websockets that open the ML endpoint
MaxTasks == 3           \* prediction-stream tasks created
TapeLen == 2            \* length of the mock's tapes, which are read cyclically
MaxDraw == 2            \* the mocked random source yields 0..MaxDraw-1
MaxTreeX == 3           \* branches of the tree followed branch by branch
MaxTreeY == 2           \* refinements of a branch of that tree
MaxResponse == 4        \* tokens of an answer given to prompt_to_llm_engineer

(* Inputs *)

(* A credential is an opaque string; the model names the credentials of a  *)
(* registry 1, 2, ... and writes 0 for a slot os.environ does not hold.    *)
None == "None"
Unset == 0

(* LLM_response.obtener_respuesta, lines 38-45: the provider names the     *)
(* gateway dispatches on; "openai" stands for any other name.              *)
Supported == {"groq", "sambanova", "cerebras", "googleaistudio"}
ServiceNames == Supported \cup {"openai"}

(* The os.environ entries the selectors write (common.py, lines 30-37), and *)
(* the entry that would belong to a provider of any other name.            *)
Slots == {"GROQ_API_KEY", "SAMBANOVA_API_KEY", "CEREBRAS_API_KEY", "GOOGLE_API_KEY",
          "OTHER_API_KEY"}

Range(s) == {s[x] : x \in DOMAIN s}

(* The registry that lists the credentials of pairs, in order, under their *)
(* providers, and the providers of empties with an empty list.             *)
RECURSIVE RegistryOf(_, _)
RegistryOf(pairs, empties) ==
    IF pairs = <<>> THEN [p \in empties |-> <<>>]
    ELSE LET len == Len(pairs)
             rest == RegistryOf(SubSeq(pairs, 1, len - 1), empties)
             p == pairs[len][1]
         IN  [q \in DOMAIN rest \cup {p} |->
                 IF q = p
                 THEN (IF p \in DOMAIN rest THEN rest[p] ELSE <<>>) \o <<pairs[len][2]>>
                 ELSE rest[q]]

(* Every registry holding at most MaxCredentials credentials: a mapping    *)
(* from some provider names to credential lists.                           *)
Registries ==
    {RegistryOf([x \in DOMAIN owners |-> <<owners[x], x>>], empties) :
        owners \in UNION {[1..len -> ServiceNames] : len \in 0..MaxCredentials},
        empties \in SUBSET ServiceNames}

----------------------------------------------------------------------------
(* random.choice replaced by seq[0] *)
random_choice_first(seq, r) == seq[1]

(* random.choice(seq) with the raw draw r; seq is not empty *)
random_choice(seq, r) == seq[(r % Len(seq)) + 1]

(* the cerebras branch writing the variable of sambanova *)
publish_elif_wrong_slot(e, service_name, key) ==
    IF service_name = "groq" THEN [e EXCEPT !["GROQ_API_KEY"] = key]
    ELSE IF service_name = "sambanova" THEN [e EXCEPT !["SAMBANOVA_API_KEY"] = key]
    ELSE IF service_name = "cerebras" THEN [e EXCEPT !["SAMBANOVA_API_KEY"] = key]
    ELSE IF service_name = "googleaistudio" THEN [e EXCEPT !["GOOGLE_API_KEY"] = key]
    ELSE e

(* common.get_random_service_key, lines 30-37 (and generate_ideas/utils,   *)
(* lines 45-52): the if/elif chain writing os.environ.                     *)
publish_elif(e, service_name, key) ==
    IF service_name = "groq" THEN [e EXCEPT !["GROQ_API_KEY"] = key]
    ELSE IF service_name = "sambanova" THEN [e EXCEPT !["SAMBANOVA_API_KEY"] = key]
    ELSE IF service_name = "cerebras" THEN [e EXCEPT !["CEREBRAS_API_KEY"] = key]
    ELSE IF service_name = "googleaistudio" THEN [e EXCEPT !["GOOGLE_API_KEY"] = key]
    ELSE e

(* the selector by name without its check of an empty list: an empty       *)
(* credential is published and returned                                    *)
get_random_service_key_unchecked(service_name, r) ==
    IF service_name \notin DOMAIN api_keys
    THEN [status |-> "ValueError", ret |-> None, env |-> env]
    ELSE LET keys_for_service == api_keys[service_name]
             key == IF keys_for_service = <<>> THEN Unset
                    ELSE random_choice(keys_for_service, r)
         IN  [status |-> "ok",
              ret    |-> <<service_name, key>>,
              env    |-> publish_elif(env, service_name, key)]

(* common.get_random_service_key(service_name): the outcome of the call    *)
(* in the current state with raw draw r.                                   *)
get_random_service_key(service_name, r) ==
    IF service_name \notin DOMAIN api_keys
    THEN [status |-> "ValueError", ret |-> None, env |-> env]
    ELSE LET keys_for_service == api_keys[service_name] IN
         IF keys_for_service = <<>>
         THEN [status |-> "ValueError", ret |-> None, env |-> env]
         ELSE LET key == random_choice(keys_for_service, r) IN
              [status |-> "ok",
               ret    |-> <<service_name, key>>,
               env    |-> publish_elif(env, service_name, key)]

(* generate_ideas/utils.get_random_key_for_service(service_name): the older *)
(* copy of the selector by name.                                            *)
get_random_key_for_service(service_name, r) ==
    IF service_name \notin DOMAIN api_keys
    THEN [status |-> "ValueError", ret |-> None, env |-> env]
    ELSE LET keys_for_service == api_keys[service_name] IN
         IF keys_for_service = <<>>
         THEN [status |-> "ValueError", ret |-> None, env |-> env]
         ELSE LET key == random_choice(keys_for_service, r) IN
              [status |-> "ok",
               ret    |-> <<service_name, key>>,
               env    |-> publish_elif(env, service_name, key)]

(* The order in which api_keys.items() yields the providers: the insertion *)
(* order of cloud_constants.api_keys, any other name after them.           *)
ServiceOrder == <<"groq", "sambanova", "cerebras", "googleaistudio", "openai">>

(* [(service, key) for service, keys in api_keys.items() for key in keys]  *)
RECURSIVE all_pairs_from(_)
all_pairs_from(k) ==
    IF k > Len(ServiceOrder) THEN <<>>
    ELSE LET service == ServiceOrder[k] IN
         (IF service \in DOMAIN api_keys
          THEN [x \in 1..Len(api_keys[service]) |-> <<service, api_keys[service][x]>>]
          ELSE <<>>) \o all_pairs_from(k + 1)

(* the flattening keeping only the first provider that has credentials *)
all_pairs_first_service ==
    LET all == all_pairs_from(1) IN
    IF all = <<>> THEN <<>>
    ELSE SelectSeq(all, LAMBDA pr : pr[1] = all[1][1])

all_pairs == all_pairs_from(1)

(* utils.get_random_service_key, lines 16-23: four independent ifs *)
publish_ifs(e, service, key) ==
    LET e1 == IF service = "groq" THEN [e EXCEPT !["GROQ_API_KEY"] = key] ELSE e
        e2 == IF service = "sambanova" THEN [e1 EXCEPT !["SAMBANOVA_API_KEY"] = key] ELSE e1
        e3 == IF service = "cerebras" THEN [e2 EXCEPT !["CEREBRAS_API_KEY"] = key] ELSE e2
    IN  IF service = "googleaistudio" THEN [e3 EXCEPT !["GOOGLE_API_KEY"] = key] ELSE e3

(* ideas_orchestator/utils.get_random_service_key(): no argument *)
get_random_service_key_any(r) ==
    IF all_pairs = <<>>
    THEN [status |-> "ValueError", ret |-> None, env |-> env]
    ELSE LET api_key == random_choice(all_pairs, r) IN
         [status |-> "ok",
          ret    |-> api_key,
          env    |-> publish_ifs(env, api_key[1], api_key[2])]

(* generate_ideas/utils.get_random_service_key(): the older copy of it *)
get_random_service_key_old(r) ==
    IF all_pairs = <<>>
    THEN [status |-> "ValueError", ret |-> None, env |-> env]
    ELSE LET api_key == random_choice(all_pairs, r) IN
         [status |-> "ok",
          ret    |-> api_key,
          env    |-> publish_ifs(env, api_key[1], api_key[2])]

----------------------------------------------------------------------------
(* The response gateway *)

ErrorMarker == "[ERROR]:"
Servicio_no_soportado == <<"Servicio no soportado">>

(* What the remote chat-completion call does: it answers or it fails. *)
Contents == {<<"a">>}
Exceptions == {"boom"}
Outcomes == {[ok |-> TRUE, text |-> t] : t \in Contents}
            \cup {[ok |-> FALSE, text |-> <<x>>] : x \in Exceptions}

(* The word error inside 1, 2, 3 pairs of braces, each a token of a text *)
BracedError == <<"{error}", "{{error}}", "{{{error}}}">>

(* The number of brace pairs around a token, 0 for any other token *)
Braces(tok) ==
    IF \E k \in DOMAIN BracedError : BracedError[k] = tok
    THEN CHOOSE k \in DOMAIN BracedError : BracedError[k] = tok
    ELSE 0

(* str.replace('{error}', '{{error}}'), a text being a token sequence: the *)
(* innermost brace pair of every braced token is doubled.                  *)
escape_error(s) ==
    [x \in DOMAIN s |->
        IF Braces(s[x]) \in 1..(Len(BracedError) - 1)
        THEN BracedError[Braces(s[x]) + 1]
        ELSE s[x]]

(* main.py, sanitize_prompt_string: the same replacement, by the caller *)
sanitize_prompt_string(s) ==
    [x \in DOMAIN s |->
        IF Braces(s[x]) \in 1..(Len(BracedError) - 1)
        THEN BracedError[Braces(s[x]) + 1]
        ELSE s[x]]

(* ChatPromptTemplate.from_messages reads a message as a format string: a  *)
(* doubled brace is a literal brace, so that a token with an odd number of *)
(* brace pairs is the input variable error.                                *)
input_variables(message) ==
    {"error" : x \in {y \in DOMAIN message : Braces(message[y]) % 2 = 1}}

(* chain.invoke({"system": ..., "human": ...}): a template with an input   *)
(* variable other than these two raises before anything is asked.          *)
invoke(system, human, out) ==
    IF (input_variables(system) \cup input_variables(human)) \subseteq {"system", "human"}
    THEN out
    ELSE [ok |-> FALSE, text |-> <<"KeyError">>]

(* obtener_respuesta_groq: everything is inside try/except Exception *)
obtener_respuesta_groq(e, system, human, modelo, asked) ==
    LET out == invoke(system, human, asked) IN
    IF e["GROQ_API_KEY"] = Unset
    THEN [status |-> "returned", called |-> FALSE,
          value |-> <<ErrorMarker, "Falta la variable de entorno GROQ_API_KEY">>]
    ELSE IF out.ok
    THEN [status |-> "returned", called |-> TRUE, value |-> out.text]
    ELSE [status |-> "returned", called |-> TRUE, value |-> <<ErrorMarker>> \o out.text]

(* obtener_respuesta_sambanova: no try/except, an exception propagates *)
obtener_respuesta_sambanova(e, system, human, modelo, asked) ==
    LET out == invoke(system, human, asked) IN
    IF out.ok
    THEN [status |-> "returned", called |-> TRUE, value |-> out.text]
    ELSE [status |-> "raised", called |-> TRUE, value |-> out.text]

(* obtener_respuesta_cerebras: no try/except *)
obtener_respuesta_cerebras(e, system, human, modelo, asked) ==
    LET out == invoke(system, human, asked) IN
    IF out.ok
    THEN [status |-> "returned", called |-> TRUE, value |-> out.text]
    ELSE [status |-> "raised", called |-> TRUE, value |-> out.text]

(* obtener_respuesta_google: no try/except *)
obtener_respuesta_google(e, system, human, modelo, asked) ==
    LET out == invoke(system, human, asked) IN
    IF out.ok
    THEN [status |-> "returned", called |-> TRUE, value |-> out.text]
    ELSE [status |-> "raised", called |-> TRUE, value |-> out.text]

(* obtener_respuesta(cloud_service, system, human, modelo): r is the draw   *)
(* of the credential selection, out what the remote call does.  The result *)
(* of a provider function is a str, never a dict, so lines 50-51 never     *)
(* rewrite it.                                                             *)
obtener_respuesta(cloud_service, system, human, modelo, r, out) ==
    LET s == get_random_service_key(cloud_service, r)
        system_safe == escape_error(system)
        human_safe == escape_error(human)
        sent == <<system_safe, human_safe>>
    IN  IF s.status # "ok"
        THEN [status |-> "raised", called |-> FALSE, value |-> <<s.status>>,
              env |-> s.env, sel |-> s, sent |-> <<>>]
        ELSE LET result ==
                   IF cloud_service = "groq"
                   THEN obtener_respuesta_groq(s.env, system_safe, human_safe, modelo, out)
                   ELSE IF cloud_service = "sambanova"
                   THEN obtener_respuesta_sambanova(s.env, system_safe, human_safe, modelo, out)
                   ELSE IF cloud_service = "cerebras"
                   THEN obtener_respuesta_cerebras(s.env, system_safe, human_safe, modelo, out)
                   ELSE IF cloud_service = "googleaistudio"
                   THEN obtener_respuesta_google(s.env, system_safe, human_safe, modelo, out)
                   ELSE [status |-> "returned", called |-> FALSE,
                         value |-> Servicio_no_soportado]
             IN  [status |-> result.status, called |-> result.called,
                  value |-> result.value, env |-> s.env, sel |-> s,
                  sent |-> IF result.called THEN sent ELSE <<>>]

----------------------------------------------------------------------------
(* Direct calls of the selectors and of the gateway *)

EnvUnset == [x \in Slots |-> Unset]
NoSel == [fn |-> "none", arg |-> None, status |-> "none", ret |-> None]
NoCall == [cloud |-> None, status |-> "none", called |-> FALSE, failed |-> FALSE,
           value |-> <<>>, sent |-> <<>>]

(* The raw draws random.choice may get for a list of len elements, as the  *)
(* k-th draw of a step: any index, or what the mocked source yields next.  *)
DrawAt(k, len) ==
    IF mock.rnd = <<>>
    THEN 0..(IF len = 0 THEN 0 ELSE len - 1)
    ELSE {mock.rnd[((pos.r + k) % Len(mock.rnd)) + 1]}

(* What the chat-completion call may do: anything, or what the mock says *)
OutNow ==
    IF mock.out = <<>> THEN Outcomes ELSE {mock.out[(pos.g % Len(mock.out)) + 1]}

(* The mock's tapes after dr draws and dg chat-completion calls *)
Advance(dr, dg) ==
    IF mock.rnd = <<>> THEN pos
    ELSE [r |-> (pos.r + dr) % Len(mock.rnd), g |-> (pos.g + dg) % Len(mock.out)]

Drawn(s) == IF s.status = "ok" THEN 1 ELSE 0
Asked(g) == IF g.called THEN 1 ELSE 0

KeysLen(service) == IF service \in DOMAIN api_keys THEN Len(api_keys[service]) ELSE 0

(* Prompts that hold the literal text {error}, as written and as main.py   *)
(* passes them on, through sanitize_prompt_string                          *)
Systems == {<<"system", "{error}">>, sanitize_prompt_string(<<"system", "{error}">>)}
Humans == {<<"{error}", "human">>, sanitize_prompt_string(<<"{error}", "human">>)}

SelOf(fn, arg, s) == [fn |-> fn, arg |-> arg, status |-> s.status, ret |-> s.ret]

(* A direct call of the selector by name, in either of its two copies *)
CallSelectByName ==
    /\ pc = "idle"
    /\ \E service_name \in ServiceNames :
       \E r \in DrawAt(0, KeysLen(service_name)) :
         \E s \in {get_random_service_key(service_name, r),
                   get_random_key_for_service(service_name, r)} :
            /\ sel' = SelOf("by_name", service_name, s)
            /\ env' = s.env
            /\ pos' = Advance(Drawn(s), 0)
    /\ gw' = NoCall
    /\ UNCHANGED <<api_keys, human_list, clock, pc, loopVars, hv, runs, mock, rec, prev,
                   callVars, brief, appVars>>

(* A direct call of the selector without argument, in either copy *)
CallSelectAny ==
    /\ pc = "idle"
    /\ \E r \in DrawAt(0, Len(all_pairs)) :
         \E s \in {get_random_service_key_any(r), get_random_service_key_old(r)} :
            /\ sel' = SelOf("any", None, s)
            /\ env' = s.env
            /\ pos' = Advance(Drawn(s), 0)
    /\ gw' = NoCall
    /\ UNCHANGED <<api_keys, human_list, clock, pc, loopVars, hv, runs, mock, rec, prev,
                   callVars, brief, appVars>>

(* A direct call of the gateway *)
CallObtenerRespuesta ==
    /\ pc = "idle"
    /\ \E cloud_service \in ServiceNames, system \in Systems, human \in Humans :
       \E r \in DrawAt(0, KeysLen(cloud_service)), out \in OutNow :
         LET g == obtener_respuesta(cloud_service, system, human, "modelo", r, out) IN
         /\ gw' = [cloud |-> cloud_service, status |-> g.status, called |-> g.called,
                   failed |-> g.called /\ ~invoke(g.sent[1], g.sent[2], out).ok,
                   value |-> g.value, sent |-> g.sent]
         /\ sel' = SelOf("by_name", cloud_service, g.sel)
         /\ env' = g.env
         /\ pos' = Advance(Drawn(g.sel), Asked(g))
    /\ UNCHANGED <<api_keys, human_list, clock, pc, loopVars, hv, runs, mock, rec, prev,
                   callVars, brief, appVars>>

(* The process before any run of the pipeline, with no mock installed *)
NoArgs == [models_dict |-> <<>>, X |-> 0, Y |-> 0, N_JUICIOS |-> 0]
NoTree == [cold |-> FALSE, gen |-> 0, ref |-> 0, para |-> 0, judge |-> 0]
NoMock == [rnd |-> <<>>, out |-> <<>>, args |-> NoArgs]
NoRun == [ran |-> FALSE]
NoRec == [cache |-> <<>>, times |-> <<>>, calls |-> <<>>]
NoBrief == [status |-> "none", cloud |-> None, response |-> <<>>, value |-> None]
NoPending == [state |-> "none", kind |-> None, cloud |-> None, modelo |-> None,
              sys |-> <<>>, hum |-> <<>>, r |-> 0, value |-> <<>>]

(* The web application: nothing connected, no stream, no request *)
ChatClients == 1..MaxChatClients
StreamClients == 1..MaxStreamClients

NoEndpoint == [pc |-> "start", content |-> None, it |-> 0, cur |-> 0,
               disconnected |-> <<>>, bcast |-> "none", members |-> {}, got |-> <<>>]

NoMlEndpoint == [pc |-> "start", op |-> None, stream_id |-> None, stream_ids |-> <<>>,
                 task |-> 0, cancelled |-> {}, returned |-> None]

NoRequest == [pc |-> "none", raised |-> FALSE, response_queue |-> <<>>,
              stream_task |-> "none", sent |-> <<>>, send_failed |-> FALSE]

AppIdle ==
    /\ active_connections = [general |-> <<>>, ml_model |-> <<>>]
    /\ chat_users = {}
    /\ endpoint = [w \in ChatClients |-> NoEndpoint]
    /\ active_streams = [stream_id \in {} |-> 0]
    /\ client_streams = [websocket \in {} |-> <<>>]
    /\ tasks = <<>>
    /\ ml_endpoint = [w \in StreamClients |-> NoMlEndpoint]
    /\ request = NoRequest

LocalsReset ==
    /\ args = NoArgs /\ n = 0 /\ i = 0 /\ j = 0
    /\ chosen = <<None, None>> /\ para = <<>>
    /\ idea_actual = <<>> /\ ideas_refinadas_finales = <<>>
    /\ lista_de_veredictos = <<>> /\ analisis_final = <<>>
    /\ meta_veredicto_final = <<>>
    /\ tree = NoTree

FreshProcess ==
    /\ env = EnvUnset
    /\ sel = NoSel
    /\ gw = NoCall
    /\ human_list = <<>>
    /\ hv = [calls |-> 0, returned |-> {}, from |-> None]
    /\ call = NoPending /\ inflight = 0
    /\ brief = NoBrief
    /\ AppIdle
    /\ LocalsReset

InitGateway ==
    /\ api_keys \in Registries
    /\ FreshProcess
    /\ clock = 0
    /\ pc = "idle"
    /\ runs = 0
    /\ mock = NoMock /\ pos = [r |-> 0, g |-> 0] /\ rec = NoRec /\ prev = NoRun

NextGateway ==
    \/ CallSelectByName
    \/ CallSelectAny
    \/ CallObtenerRespuesta

SpecGateway == InitGateway /\ [][NextGateway]_vars

----------------------------------------------------------------------------
(* Claims on the credential selector and the gateway, under SpecGateway *)

(* The os.environ entry keyed by a provider name *)
SlotOf(service) ==
    IF service = "groq" THEN "GROQ_API_KEY"
    ELSE IF service = "sambanova" THEN "SAMBANOVA_API_KEY"
    ELSE IF service = "cerebras" THEN "CEREBRAS_API_KEY"
    ELSE IF service = "googleaistudio" THEN "GOOGLE_API_KEY"
    ELSE "OTHER_API_KEY"

HasCredentials(service) == service \in DOMAIN api_keys /\ api_keys[service] # <<>>

(* C1: for every provider name that is not one of the four supported ones, *)
(* also a name the registry does not list, a call of obtener_respuesta     *)
(* returns the text "Servicio no soportado" and does not raise.            *)
C1_UnsupportedReturnsMarker ==
    (gw.status # "none" /\ gw.cloud \notin Supported)
        => (gw.status = "returned" /\ gw.value = Servicio_no_soportado)

(* C2: for each of the four supported providers, when the chat-completion  *)
(* call fails, obtener_respuesta returns a text that begins with the       *)
(* [ERROR]: marker and does not raise.                                     *)
C2_FailureReturnsErrorText ==
    (gw.cloud \in Supported /\ gw.failed)
        => (gw.status = "returned" /\ gw.value # <<>> /\ Head(gw.value) = ErrorMarker)

(* C5: for a provider P of the registry with a non-empty credential list,  *)
(* the selector by name returns (P, k) with k in P's list, so (P, k1) when *)
(* k1 is the only credential, and every element of the list is a possible  *)
(* result.                                                                 *)
C5_SelectFromOwnList ==
    /\ (sel.fn = "by_name" /\ HasCredentials(sel.arg))
          => /\ sel.status = "ok"
             /\ sel.ret[1] = sel.arg
             /\ sel.ret[2] \in Range(api_keys[sel.arg])
    /\ \A P \in DOMAIN api_keys : \A k \in Range(api_keys[P]) :
          ENABLED (CallSelectByName /\ sel'.status = "ok" /\ sel'.ret = <<P, k>>)

C5_Witness ==
    /\ sel.fn = "by_name" /\ sel.status = "ok"
    /\ Len(api_keys[sel.arg]) = 2
    /\ sel.ret = <<sel.arg, api_keys[sel.arg][2]>>

(* C6: the selector by name raises when P is not in the registry and when  *)
(* P's credential list is empty; it then returns no credential and leaves  *)
(* every slot of os.environ as it was.                                     *)
C6_SelectFailure ==
    /\ [](  (sel.fn = "by_name" /\ ~HasCredentials(sel.arg))
              => (sel.status = "ValueError" /\ sel.ret = None))
    /\ [][ (sel'.fn = "by_name" /\ ~HasCredentials(sel'.arg)) => env' = env ]_vars

C6_Witness ==
    /\ sel.fn = "by_name" /\ sel.status = "ValueError"
    /\ sel.arg \in DOMAIN api_keys
    /\ env # EnvUnset

(* C7: the selector without argument returns a pair (P, k) of the registry,*)
(* k being a credential of P, every pair of the registry is a possible     *)
(* result, and it raises when the registry holds no credential.            *)
C7_SelectAnyPair ==
    /\ sel.fn = "any"
          => IF \E P \in DOMAIN api_keys : api_keys[P] # <<>>
             THEN /\ sel.status = "ok"
                  /\ sel.ret[1] \in DOMAIN api_keys
                  /\ sel.ret[2] \in Range(api_keys[sel.ret[1]])
             ELSE sel.status = "ValueError" /\ sel.ret = None
    /\ \A P \in DOMAIN api_keys : \A k \in Range(api_keys[P]) :
          ENABLED (CallSelectAny /\ sel'.status = "ok" /\ sel'.ret = <<P, k>>)

C7_Witness ==
    /\ sel.fn = "any" /\ sel.status = "ok"
    /\ Cardinality({P \in DOMAIN api_keys : api_keys[P] # <<>>}) = 2
    /\ sel.ret = all_pairs[Len(all_pairs)]

(* C8 as claimed: after a selection that returns (P, k), for every         *)
(* provider P of the registry, the slot keyed by P holds k and the other   *)
(* slots are as before.                                                    *)
C8_EveryProviderPublished ==
    [][ sel'.status = "ok"
          => env' = [env EXCEPT ![SlotOf(sel'.ret[1])] = sel'.ret[2]] ]_vars

(* C8, amended: after a selection that returns (P, k) with P one of groq,  *)
(* sambanova, cerebras, googleaistudio, the slot of P holds k and the      *)
(* other slots are as before; a selection that returns a provider of any   *)
(* other name writes no slot.                                              *)
C8_SupportedProviderPublished ==
    [][ sel'.status = "ok"
          => IF sel'.ret[1] \in Supported
             THEN env' = [env EXCEPT ![SlotOf(sel'.ret[1])] = sel'.ret[2]]
             ELSE env' = env ]_vars

C8_Witness ==
    /\ sel.status = "ok" /\ sel.ret[1] \in Supported
    /\ env[SlotOf(sel.ret[1])] = sel.ret[2]
    /\ \E x \in Slots \ {SlotOf(sel.ret[1])} : env[x] # Unset

----------------------------------------------------------------------------
(* The pipeline of ideas_orchestator/generate_ideas.py *)

(* cloud_constants.models_dict, in the order of its keys *)
models_dict ==
    << [name |-> "groq",
        models |-> <<"moonshotai/kimi-k2-instruct-0905",
                     "deepseek-r1-distill-llama-70b",
                     "meta-llama/llama-4-maverick-17b-128e-instruct">>],
       [name |-> "sambanova",
        models |-> <<"gpt-oss-120b", "DeepSeek-V3.1-Terminus", "DeepSeek-V3.1",
                     "Llama-4-Maverick-17B-128E-Instruct">>],
       [name |-> "cerebras",
        models |-> <<"gpt-oss-120b", "llama-4-maverick-17b-128e-instruct",
                     "qwen-3-235b-a22b-instruct-2507",
                     "qwen-3-235b-a22b-thinking-2507">>],
       [name |-> "googleaistudio", models |-> <<"gemini-2.5-pro">>] >>

(* cloud_constants.api_keys: one credential for each of the four providers *)
cloud_api_keys ==
    [groq |-> <<1>>, sambanova |-> <<2>>, cerebras |-> <<3>>, googleaistudio |-> <<4>>]

(* The models_dict a caller passes to proceso_de_metajuicio: a provider    *)
(* whose failures come back as texts and one whose failures are raised.    *)
ModelsDictArgs ==
    { << [name |-> "groq",
          models |-> <<"moonshotai/kimi-k2-instruct-0905",
                       "deepseek-r1-distill-llama-70b">>],
         [name |-> "googleaistudio", models |-> <<"gemini-2.5-pro">>] >> }

(* models_dict[name] *)
models_of(name) ==
    LET at == CHOOSE x \in DOMAIN models_dict : models_dict[x].name = name
    IN  models_dict[at].models

(* common.elegir_modelo_aleatorio(models_dict) with its two draws *)
elegir_modelo_aleatorio(md, r1, r2) ==
    LET proveedor_elegido == random_choice(md, r1)
        modelo_elegido == random_choice(proveedor_elegido.models, r2)
    IN  <<proveedor_elegido.name, modelo_elegido>>

(* prompt.prompt.system and prompt.prompt.human *)
system == <<"system">>
human == <<"human">>

(* range(5) of LLM_response.py, line 26 *)
N_VARIATIONS == 5

(* common.colombia_now(): the time t as a text *)
colombia_now(t) == ToString(t)

(* LLM_response.py, line 23 *)
human_hour_context(t) ==
    <<"Redact the following prompt with your own words: ">> \o human
    \o <<" First, keep in mind that the current time is sunday ", colombia_now(t),
         ", so we just have that quantity of time to create, train and test the ML model">>

(* the refinement prompt without the idea *)
prompt_refinamiento_blank(idea) ==
    <<"Toma la siguiente idea y mejorala.", "IDEA A REFINAR:", "---", "---">>

(* generate_ideas.py, lines 99-108 *)
prompt_refinamiento(idea) ==
    <<"Toma la siguiente idea y mejorala.", "IDEA A REFINAR:", "---">> \o idea \o <<"---">>

(* generate_ideas.py, line 128: the text every label begins with *)
IdeaMarker == "--- IDEA"

(* generate_ideas.py, lines 125-128 *)
RECURSIVE ideas_para_juzgar(_, _)
ideas_para_juzgar(ideas, idx) ==
    IF idx > Len(ideas) THEN <<>>
    ELSE <<IdeaMarker, ToString(idx), "---">> \o ideas[idx]
         \o ideas_para_juzgar(ideas, idx + 1)

(* the judging prompt without the block of the first idea *)
prompt_juicio_formatted_skipping(X, ideas) ==
    <<"PROMPT_JUICIO.TXT", ToString(X)>> \o ideas_para_juzgar(ideas, 2)

(* generate_ideas.py, line 141: the template of PROMPT_JUICIO.TXT filled in *)
prompt_juicio_formatted(X, ideas) ==
    <<"PROMPT_JUICIO.TXT", ToString(X)>> \o ideas_para_juzgar(ideas, 1)

(* generate_ideas.py, lines 186-188 *)
RECURSIVE veredictos_para_juzgar(_, _)
veredictos_para_juzgar(veredictos, idx) ==
    IF idx > Len(veredictos) THEN <<>>
    ELSE <<"--- VEREDICTO DEL JUEZ", ToString(idx), "---">> \o veredictos[idx]
         \o veredictos_para_juzgar(veredictos, idx + 1)

(* generate_ideas.py, lines 190-203 *)
prompt_metajuicio(N_JUICIOS, veredictos) ==
    <<"Eres un estratega experto", ToString(N_JUICIOS), "veredictos">>
    \o veredictos_para_juzgar(veredictos, 1)

(* generate_ideas.py, lines 135 and 206 *)
cloud_juez == "googleaistudio"
model_juez == "gemini-2.5-pro"

(* chain.invoke handing back something at once instead of the answer *)
Blocked_never == FALSE

(* LLM_response.py, lines 74, 93, 110, 133: chain.invoke returns when the  *)
(* answer is there; until then the thread is inside it                     *)
Blocked == call.state = "sent"

(* The call once it is over, with its outcome g *)
Over(c, g) ==
    [state |-> g.status, kind |-> c.kind, cloud |-> c.cloud, modelo |-> c.modelo,
     sys |-> <<>>, hum |-> <<>>, r |-> 0, value |-> g.value]

(* The pipeline calls obtener_respuesta(cloud, sys, hum, modelo) after k   *)
(* draws of the same step: the credential is selected and published, and   *)
(* the request is sent by chain.invoke.  own are the variables the caller  *)
(* assigns when the call is over, Then(g) what it does with the outcome g; *)
(* a call that ends before chain.invoke is over at once.                   *)
Send(cloud, sys, hum, modelo, k, own, Then(_)) ==
    \E r \in DrawAt(k, KeysLen(cloud)) :
        LET g == obtener_respuesta(cloud, sys, hum, modelo, r, CHOOSE out \in Outcomes : TRUE)
            c == [state |-> "sent", kind |-> pc, cloud |-> cloud, modelo |-> modelo,
                  sys |-> sys, hum |-> hum, r |-> r, value |-> <<>>]
        IN
        /\ sel' = SelOf("by_name", cloud, g.sel)
        /\ env' = g.env
        /\ pos' = Advance(k + Drawn(g.sel), 0)
        /\ rec' = IF mock.rnd = <<>> THEN rec
                  ELSE [rec EXCEPT !.calls = Append(@, <<cloud, modelo, sys, hum>>)]
        /\ IF g.called
           THEN /\ call' = c
                /\ inflight' = inflight + 1
                /\ UNCHANGED own
           ELSE /\ call' = Over(c, g)
                /\ inflight' = inflight
                /\ Then(g)
        /\ UNCHANGED <<api_keys, gw, clock, runs, mock, prev, brief, appVars>>

(* chain.invoke returns or raises, and obtener_respuesta with it *)
Receive(Then(_)) ==
    \E out \in OutNow :
        LET g == obtener_respuesta(call.cloud, call.sys, call.hum, call.modelo, call.r, out)
        IN
        /\ call' = Over(call, g)
        /\ inflight' = inflight - 1
        /\ pos' = Advance(0, 1)
        /\ Then(g)
        /\ UNCHANGED <<selVars, clock, runs, mock, rec, prev, brief, appVars>>

(* the arguments proceso_de_metajuicio is called with *)
Arguments ==
    {[models_dict |-> md, X |-> X, Y |-> Y, N_JUICIOS |-> N_JUICIOS] :
        md \in ModelsDictArgs, X \in 1..MaxX, Y \in 0..MaxY, N_JUICIOS \in 1..MaxN}

(* "if not human_list" replaced by a test that always recomputes, as in    *)
(* generate_ideas/utils.human_variations                                   *)
cache_empty_always == TRUE

(* LLM_response.py, line 25: if not human_list *)
cache_empty == human_list = <<>>

(* the branch loop running once more than X times *)
branch_loop_done_late(done) == done > args.X

(* generate_ideas.py, line 77: for i in range(X) ends after done branches *)
branch_loop_done(done) == done >= args.X

(* the refinement loop running once more than Y times *)
refine_loop_done_late(done) == done > args.Y

(* generate_ideas.py, line 94: for j in range(Y) ends after done rounds *)
refine_loop_done(done) == done >= args.Y

NewTree == [cold |-> human_list = <<>>, gen |-> 0, ref |-> 0, para |-> 0, judge |-> 0]

(* The import of generate_ideas.py, line 53: one selection without argument *)
ImportGenerateIdeas ==
    /\ pc = "boot"
    /\ \E r \in DrawAt(0, Len(all_pairs)) :
         LET s == get_random_service_key_any(r) IN
         /\ sel' = SelOf("any", None, s)
         /\ env' = s.env
         /\ pos' = Advance(Drawn(s), 0)
         /\ pc' = IF s.status = "ok" THEN "idle" ELSE "crashed"
    /\ UNCHANGED <<api_keys, gw, human_list, clock, loopVars, hv, runs, mock, rec, prev,
                   callVars, brief, appVars>>

(* proceso_de_metajuicio(models_dict, system, X, Y, N_JUICIOS) is called,   *)
(* and enters the first arbol_busqueda_ideas (lines 170-175, 74-77)         *)
StartMetajuicio ==
    /\ pc = "idle"
    /\ runs < (IF mock.rnd = <<>> THEN MaxRuns ELSE MaxMockRuns)
    /\ IF mock.rnd = <<>> THEN args' \in Arguments ELSE args' = mock.args
    /\ runs' = runs + 1
    /\ lista_de_veredictos' = <<>>
    /\ n' = 0
    /\ ideas_refinadas_finales' = <<>>
    /\ i' = 0
    /\ tree' = NewTree
    /\ pc' = "branch"
    /\ pos' = [r |-> 0, g |-> 0]
    /\ rec' = [cache |-> human_list, times |-> <<>>, calls |-> <<>>]
    /\ UNCHANGED <<selVars, human_list, clock, j, chosen, para, idea_actual,
                   analisis_final, meta_veredicto_final, hv, mock, prev, callVars, brief, appVars>>

(* human_variations() is entered (lines 21-28). The prompt it builds from  *)
(* colombia_now() is used only when human_list is empty, so the clock is   *)
(* read here in that case only; otherwise human_list is returned.          *)
EnterHumanVariations(from, warm_pc) ==
    IF cache_empty
    THEN /\ \E t \in clock..MaxClock :
              /\ clock' = t
              /\ rec' = IF mock.rnd = <<>> THEN rec
                        ELSE [rec EXCEPT !.times = Append(@, t)]
         /\ pc' = "para"
         /\ para' = <<>>
         /\ hv' = [hv EXCEPT !.from = from]
    ELSE /\ pc' = warm_pc
         /\ para' = para
         /\ hv' = [hv EXCEPT !.returned = @ \cup {human_list}]
         /\ UNCHANGED <<clock, rec>>

(* Lines 78-85: the model is drawn, then human_variations() is evaluated *)
Branch ==
    /\ pc = "branch"
    /\ \E r1 \in DrawAt(0, Len(args.models_dict)) :
       \E r2 \in DrawAt(1, Len(random_choice(args.models_dict, r1).models)) :
         chosen' = elegir_modelo_aleatorio(args.models_dict, r1, r2)
    /\ pos' = Advance(2, 0)
    /\ EnterHumanVariations("gen", "gen")
    /\ UNCHANGED <<selVars, human_list, args, n, i, j, idea_actual,
                   ideas_refinadas_finales, lista_de_veredictos, analisis_final,
                   meta_veredicto_final, tree, runs, mock, prev, callVars, brief, appVars>>

(* human_variations() called from elsewhere in the process *)
CallHumanVariations ==
    /\ pc = "idle"
    /\ hv.calls <= N_VARIATIONS
    /\ EnterHumanVariations("idle", "idle")
    /\ UNCHANGED <<selVars, human_list, args, n, i, j, chosen, idea_actual,
                   ideas_refinadas_finales, lista_de_veredictos, analisis_final,
                   meta_veredicto_final, tree, runs, mock, pos, prev, callVars, brief, appVars>>

(* LLM_response.py, line 26: what the comprehension does with the outcome  *)
(* of one call; after the last one human_list is assigned and returned     *)
(* (line 28)                                                               *)
ParaphraseThen(g) ==
    /\ hv' = [hv EXCEPT !.calls = @ + 1,
                        !.returned =
                            IF g.status = "returned" /\ Len(para) + 1 = N_VARIATIONS
                            THEN @ \cup {Append(para, g.value)} ELSE @]
    /\ tree' = IF hv.from = "gen" THEN [tree EXCEPT !.para = @ + 1] ELSE tree
    /\ IF g.status = "raised"
       THEN /\ pc' = IF hv.from = "gen" THEN "crashed" ELSE "idle"
            /\ UNCHANGED <<para, human_list>>
       ELSE IF Len(para) + 1 = N_VARIATIONS
       THEN /\ human_list' = Append(para, g.value)
            /\ para' = <<>>
            /\ pc' = hv.from
       ELSE /\ para' = Append(para, g.value)
            /\ UNCHANGED <<pc, human_list>>

(* LLM_response.py, line 26: one call of the comprehension *)
Paraphrase ==
    /\ pc = "para"
    /\ IF Blocked
       THEN Receive(ParaphraseThen)
       ELSE Send("groq", <<>>, human_hour_context(clock), models_of("groq")[1], 0,
                 <<hv, tree, pc, para, human_list>>, ParaphraseThen)
    /\ UNCHANGED <<args, n, i, j, chosen, idea_actual, ideas_refinadas_finales,
                   lista_de_veredictos, analisis_final, meta_veredicto_final>>

(* the branch ending with the idea it had before its last call *)
EndBranch_stale(idea) ==
    /\ ideas_refinadas_finales' = Append(ideas_refinadas_finales, idea_actual)
    /\ i' = i + 1
    /\ pc' = IF branch_loop_done(i + 1) THEN "judge" ELSE "branch"

(* Line 115: the branch ends with idea as its final idea *)
EndBranch(idea) ==
    /\ ideas_refinadas_finales' = Append(ideas_refinadas_finales, idea)
    /\ i' = i + 1
    /\ pc' = IF branch_loop_done(i + 1) THEN "judge" ELSE "branch"

(* Lines 85-94: the idea of branch i is assigned; the refinements follow *)
GenerateThen(g) ==
    /\ tree' = [tree EXCEPT !.gen = @ + 1]
    /\ IF g.status = "raised"
       THEN /\ pc' = "crashed"
            /\ UNCHANGED <<i, j, idea_actual, ideas_refinadas_finales>>
       ELSE /\ idea_actual' = g.value
            /\ j' = 0
            /\ IF refine_loop_done(0)
               THEN EndBranch(g.value)
               ELSE /\ pc' = "refine"
                    /\ UNCHANGED <<i, ideas_refinadas_finales>>

(* Line 85: the generation call of branch i *)
Generate ==
    /\ pc = "gen"
    /\ IF Blocked
       THEN Receive(GenerateThen)
       ELSE \E r1 \in DrawAt(0, Len(human_list)) :
              Send(chosen[1], system, random_choice(human_list, r1), chosen[2], 1,
                   <<tree, pc, i, j, idea_actual, ideas_refinadas_finales>>, GenerateThen)
    /\ UNCHANGED <<human_list, args, n, chosen, para, lista_de_veredictos,
                   analisis_final, meta_veredicto_final, hv>>

(* Lines 109-115: the refined idea is assigned; the next round follows, or *)
(* the branch ends                                                         *)
RefineThen(g) ==
    /\ tree' = [tree EXCEPT !.ref = @ + 1]
    /\ IF g.status = "raised"
       THEN /\ pc' = "crashed"
            /\ UNCHANGED <<i, j, idea_actual, ideas_refinadas_finales>>
       ELSE /\ idea_actual' = g.value
            /\ j' = j + 1
            /\ IF refine_loop_done(j + 1)
               THEN EndBranch(g.value)
               ELSE UNCHANGED <<pc, i, ideas_refinadas_finales>>

(* Lines 94-113: refinement j of branch i *)
Refine ==
    /\ pc = "refine"
    /\ IF Blocked
       THEN Receive(RefineThen)
       ELSE \E r1 \in DrawAt(0, Len(args.models_dict)) :
            \E r2 \in DrawAt(1, Len(random_choice(args.models_dict, r1).models)) :
              LET ref == elegir_modelo_aleatorio(args.models_dict, r1, r2) IN
              Send(ref[1], system, prompt_refinamiento(idea_actual), ref[2], 2,
                   <<tree, pc, i, j, idea_actual, ideas_refinadas_finales>>, RefineThen)
    /\ UNCHANGED <<human_list, args, n, chosen, para, lista_de_veredictos,
                   analisis_final, meta_veredicto_final, hv>>

(* Line 142: the answer of the judge is the analysis of the tree *)
JudgeThen(g) ==
    /\ tree' = [tree EXCEPT !.judge = @ + 1]
    /\ IF g.status = "raised"
       THEN pc' = "crashed" /\ UNCHANGED analisis_final
       ELSE pc' = "tree_return" /\ analisis_final' = g.value

(* Lines 124-142: the judge call of the tree *)
Judge ==
    /\ pc = "judge"
    /\ IF Blocked
       THEN Receive(JudgeThen)
       ELSE Send(cloud_juez, system,
                 prompt_juicio_formatted(args.X, ideas_refinadas_finales), model_juez, 0,
                 <<tree, pc, analisis_final>>, JudgeThen)
    /\ UNCHANGED <<human_list, args, n, i, j, chosen, para, idea_actual,
                   ideas_refinadas_finales, lista_de_veredictos,
                   meta_veredicto_final, hv>>

(* Lines 149, 175-176: the tree returns its verdict; the next tree starts, *)
(* or the loop of proceso_de_metajuicio ends                               *)
TreeReturn ==
    /\ pc = "tree_return"
    /\ lista_de_veredictos' = Append(lista_de_veredictos, analisis_final)
    /\ n' = n + 1
    /\ IF n + 1 < args.N_JUICIOS
       THEN /\ ideas_refinadas_finales' = <<>>
            /\ i' = 0
            /\ tree' = NewTree
            /\ pc' = "branch"
       ELSE /\ pc' = "meta"
            /\ UNCHANGED <<ideas_refinadas_finales, i, tree>>
    /\ UNCHANGED <<selVars, human_list, clock, args, j, chosen, para, idea_actual,
                   analisis_final, meta_veredicto_final, hv, runs, mockVars, callVars, brief, appVars>>

(* Line 210: the answer of the meta-judge is the meta-verdict *)
MetaJudgeThen(g) ==
    IF g.status = "raised"
    THEN pc' = "crashed" /\ UNCHANGED meta_veredicto_final
    ELSE pc' = "done" /\ meta_veredicto_final' = g.value

(* Lines 186-210: the meta-judge call *)
MetaJudge ==
    /\ pc = "meta"
    /\ IF Blocked
       THEN Receive(MetaJudgeThen)
       ELSE Send(cloud_juez, system,
                 prompt_metajuicio(args.N_JUICIOS, lista_de_veredictos), model_juez, 0,
                 <<pc, meta_veredicto_final>>, MetaJudgeThen)
    /\ UNCHANGED <<human_list, args, n, i, j, chosen, para, idea_actual,
                   ideas_refinadas_finales, lista_de_veredictos, analisis_final,
                   tree, hv>>

(* What the mock keeps of a run that ended *)
RunRecord ==
    [ran |-> TRUE, args |-> args, cache |-> rec.cache, times |-> rec.times,
     calls |-> rec.calls, ended |-> pc, verdict |-> meta_veredicto_final]

LocalsDiscarded ==
    /\ args' = NoArgs /\ n' = 0 /\ i' = 0 /\ j' = 0
    /\ chosen' = <<None, None>> /\ para' = <<>>
    /\ idea_actual' = <<>> /\ ideas_refinadas_finales' = <<>>
    /\ lista_de_veredictos' = <<>> /\ analisis_final' = <<>>
    /\ meta_veredicto_final' = <<>>
    /\ tree' = NoTree

(* Line 217: proceso_de_metajuicio returns the meta-verdict *)
Return ==
    /\ pc = "done"
    /\ pc' = "idle"
    /\ prev' = IF mock.rnd = <<>> THEN prev ELSE RunRecord
    /\ rec' = NoRec
    /\ LocalsDiscarded
    /\ call' = NoPending
    /\ UNCHANGED <<selVars, human_list, clock, hv, runs, mock, pos, inflight, brief, appVars>>

(* The process ends, by an uncaught exception or not, and a new one starts *)
Restart ==
    /\ pc \in {"idle", "crashed"}
    /\ pc' = "boot"
    /\ prev' = IF pc = "crashed" /\ mock.rnd # <<>> THEN RunRecord ELSE prev
    /\ rec' = NoRec
    /\ env' = EnvUnset
    /\ sel' = NoSel
    /\ gw' = NoCall
    /\ human_list' = <<>>
    /\ hv' = [calls |-> 0, returned |-> {}, from |-> None]
    /\ LocalsDiscarded
    /\ call' = NoPending
    /\ inflight' = 0
    /\ brief' = NoBrief
    /\ UNCHANGED <<api_keys, clock, runs, mock, pos, appVars>>

InitPipeline ==
    /\ api_keys = cloud_api_keys
    /\ FreshProcess
    /\ clock = 0
    /\ pc = "boot"
    /\ runs = 0
    /\ mock = NoMock /\ pos = [r |-> 0, g |-> 0] /\ rec = NoRec /\ prev = NoRun

Next ==
    \/ ImportGenerateIdeas
    \/ StartMetajuicio
    \/ Branch
    \/ CallHumanVariations
    \/ Paraphrase
    \/ Generate
    \/ Refine
    \/ Judge
    \/ TreeReturn
    \/ MetaJudge
    \/ Return
    \/ Restart

Spec == InitPipeline /\ [][Next]_vars

(* The pipeline under a mocked random source and mocked chat-completion    *)
(* answers: each is a tape read cyclically from its start in every run,    *)
(* and every run is given the same arguments.                              *)
TapeAnswers == Outcomes \cup {[ok |-> TRUE, text |-> <<"b">>]}

Mocks == {[rnd |-> t1, out |-> t2, args |-> a] :
             t1 \in [1..TapeLen -> 0..(MaxDraw - 1)], t2 \in [1..TapeLen -> TapeAnswers],
             a \in Arguments}

InitMocked ==
    /\ api_keys = cloud_api_keys
    /\ FreshProcess
    /\ clock = 0
    /\ pc = "boot"
    /\ runs = 0
    /\ mock \in Mocks /\ pos = [r |-> 0, g |-> 0] /\ rec = NoRec /\ prev = NoRun

SpecMocked == InitMocked /\ [][Next]_vars

----------------------------------------------------------------------------
(* Claims on the pipeline, under Spec and SpecMocked *)

C9_ParaphrasesComputedOnce ==
    /\ hv.calls <= N_VARIATIONS
    /\ Cardinality(hv.returned) <= 1
    /\ \A l \in hv.returned : Len(l) = N_VARIATIONS /\ l = human_list
    /\ human_list # <<>> => (hv.calls = N_VARIATIONS /\ Len(human_list) = N_VARIATIONS)
    /\ hv.returned # {} => hv.calls = N_VARIATIONS

C9_Witness ==
    /\ pc = "gen" /\ i = 1 /\ tree.cold
    /\ hv.returned = {human_list}
    /\ human_list[1] = <<ErrorMarker, "boom">>
    /\ human_list[2] = <<"a">>

(* A run of proceso_de_metajuicio has ended, by its return or by an *)
(* exception it did not catch                                       *)
RunEnded == pc \in {"done", "crashed"}

(* C10 as claimed: two runs with the same X, Y, N, the same random choices *)
(* and the same mocked answers end with the same meta-verdict and make the *)
(* same gateway calls, in the same order.                                  *)
C10_RunsRepeat ==
    (RunEnded /\ prev.ran /\ prev.args = args)
        => /\ prev.ended = pc
           /\ meta_veredicto_final = prev.verdict
           /\ rec.calls = prev.calls

(* C10, amended: they do when, in addition, human_list holds the same at   *)
(* the start of both runs and, if it is empty, colombia_now() returns the  *)
(* same time to the first human_variations() of both.                      *)
C10_RunsRepeatFromSameCache ==
    (/\ RunEnded /\ prev.ran /\ prev.args = args
     /\ prev.cache = rec.cache
     /\ rec.cache = <<>> => Head(prev.times) = Head(rec.times))
        => /\ prev.ended = pc
           /\ meta_veredicto_final = prev.verdict
           /\ rec.calls = prev.calls

C10_Witness ==
    /\ pc = "done" /\ prev.ran /\ prev.ended = "done" /\ prev.args = args
    /\ prev.cache = <<>> /\ rec.cache = <<>>
    /\ Head(prev.times) = Head(rec.times)
    /\ args.X = 2 /\ args.Y = 1
    /\ rec.calls = prev.calls /\ meta_veredicto_final = prev.verdict

(* C11: for every N >= 1 a run of proceso_de_metajuicio runs the tree with *)
(* its judge N times, one after another, collects the N verdicts in the    *)
(* order of execution, makes one meta-judge call only once the N-th        *)
(* verdict exists, and returns one meta-verdict, the answer of that call.  *)
C11_NCyclesThenOneMetaVerdict ==
    /\ pc = "meta" => (n = args.N_JUICIOS /\ Len(lista_de_veredictos) = args.N_JUICIOS)
    /\ (call.kind = "meta" /\ call.state = "sent") => pc = "meta"
    /\ RunEnded
          => /\ pc = "done"
             /\ n = args.N_JUICIOS
             /\ Len(lista_de_veredictos) = args.N_JUICIOS
             /\ call.kind = "meta" /\ call.state = "returned"
             /\ meta_veredicto_final = call.value

(* An execution of arbol_busqueda_ideas has ended, by its return or by an *)
(* exception                                                              *)
TreeEnded == pc = "tree_return" \/ (pc = "crashed" /\ call.kind # "meta")

(* C12: every execution of the search tree makes the judge call exactly    *)
(* once, only after all X branches have finished and always to             *)
(* googleaistudio / gemini-2.5-pro, whatever was drawn before, and the     *)
(* text the call returns is the verdict of the execution.                  *)
C12_OneJudgeCallPerTree ==
    /\ tree.judge <= 1
    /\ call.kind = "judge"
          => call.cloud = "googleaistudio" /\ call.modelo = "gemini-2.5-pro"
    /\ (call.kind = "judge" /\ pc \in {"judge", "tree_return", "crashed"})
          => i = args.X /\ Len(ideas_refinadas_finales) = args.X
    /\ TreeEnded
          => /\ tree.judge = 1
             /\ call.kind = "judge" /\ call.state = "returned"
             /\ analisis_final = call.value

----------------------------------------------------------------------------
(* The prompt relay, conection/conection.py *)

(* The delimiter of line 28, three backquotes, as one token *)
Delim == "[fence]"

(* The texts a provider may answer the relay with: up to MaxResponse       *)
(* tokens, a token being some text without delimiter or the delimiter.     *)
Responses == UNION {[1..len -> {"a", "b", Delim}] : len \in 0..MaxResponse}

(* str(e) of the exception a failed call raises: any text, one that quotes *)
(* a fenced block (a provider message echoing generated text) included     *)
ExceptionTexts == {<<x>> : x \in Exceptions} \cup {<<"boom", Delim, "a", Delim>>}

RelayAnswers == {[ok |-> TRUE, text |-> t] : t \in Responses}
                \cup {[ok |-> FALSE, text |-> t] : t \in ExceptionTexts}

(* str.split(Delim): the pieces of s between the delimiters *)
RECURSIVE split(_)
split(s) ==
    IF \A k \in DOMAIN s : s[k] # Delim THEN <<s>>
    ELSE LET p == CHOOSE k \in DOMAIN s :
                      s[k] = Delim /\ \A m \in 1..(k - 1) : s[m] # Delim
         IN  <<SubSeq(s, 1, p - 1)>> \o split(SubSeq(s, p + 1, Len(s)))

(* indexing that answers with the last element when k is out of range *)
list_index_clamped(parts, k) ==
    [status |-> "returned", value |-> parts[IF k <= Len(parts) THEN k ELSE Len(parts)]]

(* parts[k - 1] of Python: the k-th element, or IndexError *)
list_index(parts, k) ==
    IF k <= Len(parts)
    THEN [status |-> "returned", value |-> parts[k]]
    ELSE [status |-> "IndexError", value |-> None]

(* the last piece taken instead of the second, [-1] for [1] *)
extract_last(response) == list_index(split(response), Len(split(response)))

(* Line 28: .split(Delim)[1] *)
extract(response) == list_index(split(response), 2)

(* Lines 8-18: the prompt built around final_conclusion *)
prompt_conection(final_conclusion) ==
    <<"anteriormente">> \o final_conclusion \o <<"Escribe el prompt entre", Delim>>

(* prompt_to_llm_engineer(final_conclusion): r1, r2 are the draws of       *)
(* elegir_modelo_aleatorio, rk1 and rk2 those of the two credential        *)
(* selections (line 26 and inside obtener_respuesta, both of the same      *)
(* provider, so the second overwrites the slot the first wrote), out what  *)
(* the remote call does.                                                   *)
prompt_to_llm_engineer(final_conclusion, r1, r2, rk1, rk2, out) ==
    LET picked == elegir_modelo_aleatorio(models_dict, r1, r2)
        cloud == picked[1]
        key == get_random_service_key(cloud, rk1)
        g == obtener_respuesta(cloud, system, prompt_conection(final_conclusion),
                               picked[2], rk2, out)
    IN  IF key.status # "ok"
        THEN [status |-> key.status, cloud |-> cloud, response |-> <<>>, value |-> None,
              env |-> key.env, sel |-> key, asked |-> FALSE]
        ELSE IF g.status = "raised"
        THEN [status |-> "raised", cloud |-> cloud, response |-> <<>>, value |-> None,
              env |-> g.env, sel |-> g.sel, asked |-> g.called]
        ELSE LET x == extract(g.value) IN
             [status |-> x.status, cloud |-> cloud, response |-> g.value,
              value |-> x.value, env |-> g.env, sel |-> g.sel, asked |-> g.called]

(* The call of prompt_to_llm_engineer a process makes (main.py, line 17) *)
CallPromptToLlmEngineer ==
    /\ pc = "idle"
    /\ brief.status = "none"
    /\ \E r1 \in DrawAt(0, Len(models_dict)) :
       \E r2 \in DrawAt(1, Len(random_choice(models_dict, r1).models)) :
       \E rk1 \in DrawAt(2, KeysLen(random_choice(models_dict, r1).name)) :
       \E rk2 \in DrawAt(3, KeysLen(random_choice(models_dict, r1).name)) :
       \E out \in RelayAnswers :
         LET b == prompt_to_llm_engineer(<<"conclusion">>, r1, r2, rk1, rk2, out) IN
         /\ brief' = [status |-> b.status, cloud |-> b.cloud, response |-> b.response,
                      value |-> b.value]
         /\ sel' = SelOf("by_name", b.cloud, b.sel)
         /\ env' = b.env
         /\ pos' = Advance(2 + 2 * Drawn(b.sel), IF b.asked THEN 1 ELSE 0)
    /\ gw' = NoCall
    /\ UNCHANGED <<api_keys, human_list, clock, pc, loopVars, hv, runs, mock, rec, prev,
                   callVars, appVars>>

(* cloud_constants.api_keys as it is, and with a provider that has two     *)
(* keys, no key, or no entry                                               *)
RelayRegistries ==
    {cloud_api_keys,
     [cloud_api_keys EXCEPT !.groq = <<1, 5>>],
     [cloud_api_keys EXCEPT !.sambanova = <<>>],
     [p \in {"groq", "sambanova", "googleaistudio"} |-> cloud_api_keys[p]]}

InitRelay ==
    /\ api_keys \in RelayRegistries
    /\ FreshProcess
    /\ clock = 0
    /\ pc = "boot"
    /\ runs = 0
    /\ mock = NoMock /\ pos = [r |-> 0, g |-> 0] /\ rec = NoRec /\ prev = NoRun

NextRelay ==
    \/ ImportGenerateIdeas
    \/ CallPromptToLlmEngineer
    \/ Restart

SpecRelay == InitRelay /\ [][NextRelay]_vars

(* The positions of the delimiters in a text *)
DelimsOf(s) == {k \in DOMAIN s : s[k] = Delim}

(* C13: when the answer of the gateway holds a fenced block, the relay     *)
(* returns exactly the content of the first one: the text between the      *)
(* first and the second delimiter of the answer.                           *)
C13_FirstFencedBlock ==
    LET D == DelimsOf(brief.response) IN
    (brief.status \in {"returned", "IndexError"} /\ Cardinality(D) >= 2)
        => LET p1 == CHOOSE k \in D : \A m \in D : k <= m
               p2 == CHOOSE k \in D \ {p1} : \A m \in D \ {p1} : k <= m
           IN  /\ brief.status = "returned"
               /\ brief.value = SubSeq(brief.response, p1 + 1, p2 - 1)

C13_Witness ==
    /\ brief.status = "returned"
    /\ brief.response = <<"a", Delim, "b", Delim>>
    /\ brief.value = <<"b">>

(* C14: when the answer of the gateway holds no delimiter, as the          *)
(* unsupported-service answer does, and as an answer that begins with the  *)
(* error marker does unless the exception text itself holds delimiters,    *)
(* the relay fails with an IndexError and returns no brief.                *)
C14_NoDelimiterIndexError ==
    /\ (brief.status \in {"returned", "IndexError"} /\ DelimsOf(brief.response) = {})
          => (brief.status = "IndexError" /\ brief.value = None)
    /\ DelimsOf(Servicio_no_soportado) = {}
    /\ extract(Servicio_no_soportado).status = "IndexError"

(* C14 as stated: every answer that begins with the error marker holds no  *)
(* delimiter and makes the relay fail with an IndexError.                  *)
C14_EveryErrorResponseFails ==
    (brief.status \in {"returned", "IndexError"}
     /\ brief.response # <<>> /\ Head(brief.response) = ErrorMarker)
        => (DelimsOf(brief.response) = {} /\ brief.status = "IndexError")

C14_Witness ==
    /\ brief.status = "IndexError"
    /\ brief.response = <<ErrorMarker, "boom">>
    /\ brief.value = None

----------------------------------------------------------------------------
(* C16: the pipeline has at most one chat-completion call in flight, and   *)
(* a call is in flight exactly while the pipeline waits for its answer.    *)
C16_OneCallInFlight ==
    /\ inflight \in {0, 1}
    /\ inflight = 1 <=> call.state = "sent"
    /\ call.state = "sent" => call.kind = pc

C16_Witness == inflight = 1 /\ call.kind = "refine" /\ tree.gen = 1

----------------------------------------------------------------------------
(* C17: no step of a process changes the registry with its credential      *)
(* lists, and the only process-wide state a step changes besides the       *)
(* credential slots is the paraphrase cache human_list, which is assigned  *)
(* when it is empty, by the last paraphrase call of human_variations.      *)
C17_RegistryKeptCacheFilledOnce ==
    [][pc' # "boot" =>
          /\ api_keys' = api_keys
          /\ human_list' # human_list =>
                 (pc = "para" /\ human_list = <<>> /\ Len(human_list') = N_VARIATIONS)]_vars

(* C17 as stated: no step of a process changes process-wide state other    *)
(* than the credential slots.                                              *)
C17_OnlyCredentialSlotsChange ==
    [][pc' # "boot" => (api_keys' = api_keys /\ human_list' = human_list)]_vars

C17_Witness == pc = "done" /\ human_list # <<>> /\ env # EnvUnset

----------------------------------------------------------------------------
(* C18: the provider elegir_modelo_aleatorio chose for the gateway call of *)
(* the relay is a provider of the registry whose credential list is not    *)
(* empty.                                                                  *)
C18_ChosenProviderHasCredentials ==
    brief.status # "none"
        => (brief.cloud \in DOMAIN api_keys /\ api_keys[brief.cloud] # <<>>)

----------------------------------------------------------------------------
(* The judging step of a tree, from line 124 on, whatever the final ideas  *)

(* What a generation or refinement call may have answered: some text, an   *)
(* error response, a text with a heading of its own                        *)
IdeaTexts == {<<"a">>, <<"b">>, <<ErrorMarker, "boom">>, <<IdeaMarker, "REFINADA", "---">>}

(* The first tree of a process at line 124: X branches done by groq, the   *)
(* cache filled, nothing judged yet                                        *)
InitJudge ==
    /\ api_keys = cloud_api_keys
    /\ env = [EnvUnset EXCEPT !["GROQ_API_KEY"] = cloud_api_keys["groq"][1]]
    /\ sel = [fn |-> "by_name", arg |-> "groq", status |-> "ok",
              ret |-> <<"groq", cloud_api_keys["groq"][1]>>]
    /\ gw = NoCall
    /\ human_list = [k \in 1..N_VARIATIONS |-> <<"a">>]
    /\ hv = [calls |-> N_VARIATIONS, returned |-> {human_list}, from |-> "gen"]
    /\ clock = 0
    /\ pc = "judge"
    /\ runs = 1
    /\ mock = NoMock /\ pos = [r |-> 0, g |-> 0] /\ rec = NoRec /\ prev = NoRun
    /\ args \in Arguments
    /\ n = 0 /\ i = args.X /\ j = args.Y
    /\ chosen = <<"groq", models_of("groq")[1]>>
    /\ para = <<>>
    /\ ideas_refinadas_finales \in [1..args.X -> IdeaTexts]
    /\ idea_actual = ideas_refinadas_finales[args.X]
    /\ lista_de_veredictos = <<>> /\ analisis_final = <<>> /\ meta_veredicto_final = <<>>
    /\ tree = [cold |-> TRUE, gen |-> args.X, ref |-> args.X * args.Y,
               para |-> N_VARIATIONS, judge |-> 0]
    /\ call = [state |-> "returned", kind |-> IF args.Y = 0 THEN "gen" ELSE "refine",
               cloud |-> chosen[1], modelo |-> chosen[2], sys |-> <<>>, hum |-> <<>>,
               r |-> 0, value |-> idea_actual]
    /\ inflight = 0
    /\ brief = NoBrief
    /\ AppIdle

NextJudge == Judge

SpecJudge == InitJudge /\ [][NextJudge]_vars

(* The labels counted in a text *)
count_markers(text) == Cardinality({k \in DOMAIN text : text[k] = IdeaMarker})

(* C19: the idea blocks built for the judge of a tree with X final ideas   *)
(* hold the marker of a label exactly X times.                             *)
C19_MarkersCountX ==
    (call.kind = "judge" /\ call.state = "sent")
        => count_markers(ideas_para_juzgar(ideas_refinadas_finales, 1)) = args.X

----------------------------------------------------------------------------
(* The first tree of a process followed from line 77 to its judge call,    *)
(* the paraphrase cache being empty, or filled by an earlier call of       *)
(* human_variations. The cache is filled in branch 0 and read afterwards:  *)
(* a tree that starts with an empty cache is followed for one branch.      *)

TreeArguments ==
    {[models_dict |-> md, X |-> X, Y |-> Y, N_JUICIOS |-> 1] :
        md \in ModelsDictArgs, X \in 1..MaxTreeX, Y \in 0..MaxTreeY}

InitTree ==
    /\ api_keys = cloud_api_keys
    /\ env = [EnvUnset EXCEPT !["GROQ_API_KEY"] = cloud_api_keys["groq"][1]]
    /\ sel = [fn |-> "by_name", arg |-> "groq", status |-> "ok",
              ret |-> <<"groq", cloud_api_keys["groq"][1]>>]
    /\ gw = NoCall
    /\ human_list \in {<<>>, [k \in 1..N_VARIATIONS |-> <<"a">>]}
    /\ hv = IF human_list = <<>>
            THEN [calls |-> 0, returned |-> {}, from |-> None]
            ELSE [calls |-> N_VARIATIONS, returned |-> {human_list}, from |-> "idle"]
    /\ clock = 0
    /\ pc = "branch"
    /\ runs = 1
    /\ mock = NoMock /\ pos = [r |-> 0, g |-> 0] /\ prev = NoRun
    /\ rec = [cache |-> human_list, times |-> <<>>, calls |-> <<>>]
    /\ args \in (IF human_list = <<>> THEN {a \in TreeArguments : a.X = 1}
                 ELSE TreeArguments)
    /\ n = 0 /\ i = 0 /\ j = 0
    /\ chosen = <<None, None>>
    /\ para = <<>>
    /\ ideas_refinadas_finales = <<>>
    /\ idea_actual = <<>>
    /\ lista_de_veredictos = <<>> /\ analisis_final = <<>> /\ meta_veredicto_final = <<>>
    /\ tree = NewTree
    /\ call = IF human_list = <<>> THEN NoPending
              ELSE [state |-> "returned", kind |-> "para", cloud |-> "groq",
                    modelo |-> models_of("groq")[1], sys |-> <<>>, hum |-> <<>>,
                    r |-> 0, value |-> <<"a">>]
    /\ inflight = 0
    /\ brief = NoBrief
    /\ AppIdle

NextTree ==
    \/ Branch
    \/ Paraphrase
    \/ Generate
    \/ Refine
    \/ Judge

(* The single thread goes on as long as it can: a call that was sent gets  *)
(* its answer or its exception.                                            *)
SpecTree == InitTree /\ [][NextTree]_vars /\ WF_vars(NextTree)

(* C20: the branches are done in the order 0..X-1; in branch i the         *)
(* generation call comes first, then the refinements 0..Y-1 one after the  *)
(* other, then the idea of the branch is appended; no call of a branch is  *)
(* made before the ideas of all earlier branches are appended; and unless  *)
(* a call raises, the state in which all X branches are done is reached.   *)
C20_BranchesInOrderThenDone ==
    /\ [](/\ Len(ideas_refinadas_finales) = i /\ i <= args.X
          /\ pc = "para" => (i = 0 /\ tree.gen = 0 /\ tree.ref = 0)
          /\ pc = "gen" => (/\ i < args.X
                            /\ tree.gen = i /\ tree.ref = i * args.Y)
          /\ pc = "refine" => (/\ i < args.X /\ j < args.Y
                               /\ tree.gen = i + 1 /\ tree.ref = i * args.Y + j)
          /\ pc = "judge" => (/\ i = args.X
                              /\ tree.gen = args.X /\ tree.ref = args.X * args.Y)
          /\ call.state = "sent" => call.kind = pc)
    /\ [][ideas_refinadas_finales' # ideas_refinadas_finales
              => /\ ideas_refinadas_finales'
                       = Append(ideas_refinadas_finales, idea_actual')
                 /\ i' = i + 1 /\ j' = args.Y
                 /\ tree'.gen = i + 1 /\ tree'.ref = (i + 1) * args.Y
                 /\ call'.state = "returned" /\ call'.value = idea_actual'
                 /\ call'.kind = (IF args.Y = 0 THEN "gen" ELSE "refine")]_vars
    /\ ([](pc # "crashed")) => <>(pc = "judge" /\ i = args.X)

C20_Witness ==
    /\ pc = "judge" /\ args.X = MaxTreeX /\ args.Y = MaxTreeY
    /\ Len(ideas_refinadas_finales) = MaxTreeX /\ tree.ref = MaxTreeX * MaxTreeY

----------------------------------------------------------------------------
(* inner stands in text as it is, token after token *)
Embeds(text, inner) ==
    \E k \in 0..(Len(text) - Len(inner)) : SubSeq(text, k + 1, k + Len(inner)) = inner

(* an answer of the gateway that begins with the error marker *)
IsErrorText(text) == text # <<>> /\ Head(text) = ErrorMarker

(* C21: when a generation or refinement call answers with a text that      *)
(* begins with the error marker, that text becomes the idea of the branch  *)
(* and the call is counted once, nothing being asked again; the refinement *)
(* prompt that follows in the branch embeds it as it is, and so does the   *)
(* judging prompt for the final idea of every branch.                      *)
C21_ErrorTextIsTheIdea ==
    /\ [][(/\ call.state = "sent" /\ call.kind \in {"gen", "refine"}
           /\ call'.state = "returned" /\ IsErrorText(call'.value))
              => /\ idea_actual' = call'.value
                 /\ tree'.gen + tree'.ref = tree.gen + tree.ref + 1
                 /\ pc' \in {"refine", "branch", "judge"}
                 /\ pc' = "refine" => i' = i
                 /\ pc' # "refine"
                       => ideas_refinadas_finales'[Len(ideas_refinadas_finales')]
                              = call'.value]_vars
    /\ [][(/\ call.state = "returned" /\ call.kind \in {"gen", "refine"}
           /\ IsErrorText(call.value)
           /\ call'.state = "sent" /\ call'.kind = "refine")
              => Embeds(call'.hum, call.value)]_vars
    /\ [][(call.state # "sent" /\ call'.state = "sent" /\ call'.kind = "judge")
              => \A k \in DOMAIN ideas_refinadas_finales :
                    IsErrorText(ideas_refinadas_finales[k])
                       => Embeds(call'.hum, ideas_refinadas_finales[k])]_vars

C21_Witness ==
    /\ call.state = "sent" /\ call.kind = "judge" /\ args.Y = MaxTreeY
    /\ \A k \in DOMAIN ideas_refinadas_finales : IsErrorText(ideas_refinadas_finales[k])
    /\ Embeds(call.hum, <<ErrorMarker, "boom">>)

----------------------------------------------------------------------------
(* C22: the prompt of refinement round j of branch i is the refinement     *)
(* prompt around the answer of the call made just before in that branch,   *)
(* its generation call for j = 0 and its round j-1 otherwise; the idea     *)
(* appended for the branch is the answer of its last refinement call, or   *)
(* of its generation call when Y = 0.                                      *)
C22_RefinementChain ==
    /\ [][(call.state # "sent" /\ call'.state = "sent" /\ call'.kind = "refine")
              => /\ call.state = "returned"
                 /\ call.kind = (IF j = 0 THEN "gen" ELSE "refine")
                 /\ tree.gen = i + 1 /\ tree.ref = i * args.Y + j
                 /\ call'.hum = prompt_refinamiento(call.value)
                 /\ Embeds(call'.hum, call.value)]_vars
    /\ [][ideas_refinadas_finales' # ideas_refinadas_finales
              => /\ call.state = "sent" /\ call'.state = "returned"
                 /\ call.kind = (IF args.Y = 0 THEN "gen" ELSE "refine")
                 /\ tree'.gen = i + 1 /\ tree'.ref = (i + 1) * args.Y
                 /\ ideas_refinadas_finales'
                       = Append(ideas_refinadas_finales, call'.value)]_vars

C22_Witness ==
    /\ call.state = "sent" /\ call.kind = "refine" /\ i = 1 /\ j = 1
    /\ ideas_refinadas_finales = << <<"a">> >>
    /\ call.hum = prompt_refinamiento(<<ErrorMarker, "boom">>)

----------------------------------------------------------------------------
(* Where the block of idea k begins in the blocks built from ideas: after  *)
(* the labels and the texts of the ideas before it                         *)
RECURSIVE block_offset(_, _)
block_offset(ideas, k) ==
    IF k = 1 THEN 0
    ELSE block_offset(ideas, k - 1) + 3 + Len(ideas[k - 1])

(* C23: the judging prompt of a tree is the template with X followed by X  *)
(* blocks and nothing else: block k is the label of number k and then the  *)
(* final idea of branch k-1 of this tree, the list of final ideas holding  *)
(* the X ideas of this tree only.                                          *)
C23_JudgingPromptBlocks ==
    [][(call.state # "sent" /\ call'.state = "sent" /\ call'.kind = "judge")
          => LET ideas == ideas_refinadas_finales
                 blocks == SubSeq(call'.hum, 3, Len(call'.hum))
             IN  /\ Len(ideas) = args.X /\ tree.gen = args.X
                 /\ SubSeq(call'.hum, 1, 2) = <<"PROMPT_JUICIO.TXT", ToString(args.X)>>
                 /\ Len(blocks) = block_offset(ideas, args.X + 1)
                 /\ \A k \in 1..args.X :
                       /\ SubSeq(blocks, block_offset(ideas, k) + 1,
                                 block_offset(ideas, k) + 3)
                             = <<IdeaMarker, ToString(k), "---">>
                       /\ SubSeq(blocks, block_offset(ideas, k) + 4,
                                 block_offset(ideas, k + 1))
                             = ideas[k]]_vars

C23_Witness ==
    /\ call.state = "sent" /\ call.kind = "judge" /\ n = 1 /\ args.X = MaxX
    /\ lista_de_veredictos # <<>>
    /\ ideas_refinadas_finales = << <<"a">>, <<ErrorMarker, "boom">> >>
    /\ call.hum = <<"PROMPT_JUICIO.TXT", ToString(MaxX), IdeaMarker, "1", "---", "a",
                    IdeaMarker, "2", "---", ErrorMarker, "boom">>

----------------------------------------------------------------------------
(* C24: when obtener_respuesta has handed a call to the function of one of *)
(* the four providers, the slot of that provider holds a credential of the *)
(* list of that provider, the one the selection of this call returned, and *)
(* no credential of the list of another provider.                          *)
C24_SlotHoldsOwnCredentialAtDispatch ==
    (gw.status # "none" /\ gw.cloud \in Supported /\ sel.status = "ok")
        => LET held == env[SlotOf(gw.cloud)] IN
           /\ held # Unset
           /\ sel.fn = "by_name" /\ sel.arg = gw.cloud
           /\ sel.ret = <<gw.cloud, held>>
           /\ held \in Range(api_keys[gw.cloud])
           /\ \A q \in DOMAIN api_keys \ {gw.cloud} : held \notin Range(api_keys[q])

C24_Witness ==
    /\ gw.called /\ gw.cloud = "cerebras"
    /\ env["CEREBRAS_API_KEY"] \in Range(api_keys["cerebras"])
    /\ env["GROQ_API_KEY"] # Unset
    /\ Len(api_keys["cerebras"]) = 1 /\ Len(api_keys["groq"]) = 1

----------------------------------------------------------------------------
(* C15: whatever system and user prompt the gateway is given, for each     *)
(* supported provider, no input variable error is left in the messages the *)
(* template is built from.                                                 *)
C15_NoErrorPlaceholderReachesTemplate ==
    (gw.called /\ gw.cloud \in Supported)
        => (input_variables(gw.sent[1]) = {} /\ input_variables(gw.sent[2]) = {})

----------------------------------------------------------------------------
(* The chat endpoint of the web application (app/websockets): the         *)
(* connection manager, and one handler coroutine per websocket. The        *)
(* coroutines run on one event loop, so a handler runs without             *)
(* interruption from one await that suspends it to the next; an action is  *)
(* the code between two such awaits.                                       *)

(* dict.get(client_type, []) *)
group(connections, client_type) ==
    IF client_type \in DOMAIN connections THEN connections[client_type] ELSE <<>>

(* list.remove(x): the first occurrence goes; without one, ValueError *)
RECURSIVE remove(_, _)
remove(list, x) ==
    IF list = <<>> THEN <<>>
    ELSE IF Head(list) = x THEN Tail(list)
    ELSE <<Head(list)>> \o remove(Tail(list), x)

(* ConnectionManager.connect after accept() has returned *)
connect(connections, websocket, client_type) ==
    IF client_type \in DOMAIN connections
    THEN [connections EXCEPT ![client_type] = Append(@, websocket)]
    ELSE [t \in DOMAIN connections \cup {client_type} |->
            IF t = client_type THEN <<websocket>> ELSE connections[t]]

(* ConnectionManager.disconnect; the ValueError of remove is caught *)
disconnect(connections, websocket, client_type) ==
    IF client_type \in DOMAIN connections
    THEN [connections EXCEPT ![client_type] = remove(@, websocket)]
    ELSE connections

(* the loop of lines 90-91 *)
RECURSIVE disconnect_each(_, _, _)
disconnect_each(connections, disconnected, client_type) ==
    IF disconnected = <<>> THEN connections
    ELSE disconnect_each(disconnect(connections, Head(disconnected), client_type),
                         Tail(disconnected), client_type)

(* What a step of the handler of w leaves: its own record e, the groups,  *)
(* and for every other handler the connections that stopped being members  *)
(* of the group while its broadcast is running.                            *)
Leave(w, e, connections) ==
    LET gone == Range(group(active_connections, "chat")) \ Range(group(connections, "chat"))
    IN  /\ active_connections' = connections
        /\ endpoint' = [x \in ChatClients |->
                          IF x = w THEN e
                          ELSE IF endpoint[x].bcast = "running"
                               THEN [endpoint[x] EXCEPT !.members = @ \ gone]
                               ELSE endpoint[x]]

(* The for statement of broadcast, line 82, asks the iterator of the live *)
(* list for its next item: the item at the index it has counted up to, or  *)
(* the end of the loop and the clean-up of lines 90-91 when the list is no *)
(* longer than that.                                                       *)
broadcast_next(w, e, connections, after) ==
    LET chat == group(connections, "chat") IN
    IF e.it < Len(chat)
    THEN Leave(w, [e EXCEPT !.it = @ + 1, !.cur = chat[e.it + 1]], connections)
    ELSE Leave(w, [e EXCEPT !.pc = after, !.it = 0, !.cur = 0, !.bcast = "returned"],
               disconnect_each(connections, e.disconnected, "chat"))

(* ConnectionManager.broadcast(message, "chat") up to its first await *)
broadcast(w, e, connections, kind, after) ==
    IF "chat" \notin DOMAIN connections
    THEN Leave(w, [e EXCEPT !.pc = after], connections)
    ELSE broadcast_next(w, [e EXCEPT !.pc = kind, !.it = 0, !.cur = 0,
                                     !.disconnected = <<>>, !.bcast = "running",
                                     !.members = Range(group(connections, "chat")),
                                     !.got = <<>>],
                        connections, after)

(* cleanup_chat_connection, which the finally of the handler awaits *)
cleanup_chat_connection(w) ==
    LET connections == disconnect(active_connections, w, "chat") IN
    /\ chat_users' = chat_users \ {w}
    /\ IF group(connections, "chat") # <<>>
       THEN broadcast(w, endpoint[w], connections, "leave", "done")
       ELSE Leave(w, [endpoint[w] EXCEPT !.pc = "done"], connections)

(* A client opens /chat/{client_id}: the handler starts and awaits accept *)
OpenChat(w) ==
    /\ endpoint[w].pc = "start"
    /\ endpoint' = [endpoint EXCEPT ![w].pc = "accept"]
    /\ UNCHANGED <<active_connections, chat_users, streamVars, request, agentVars>>

(* accept() returns or raises: lines 45-64 *)
Accepted(w) ==
    /\ endpoint[w].pc = "accept"
    /\ \E outcome \in {"ok", "Exception"} :
         IF outcome = "ok"
         THEN /\ chat_users' = chat_users \cup {w}
              /\ Leave(w, [endpoint[w] EXCEPT !.pc = "welcome"],
                       connect(active_connections, w, "chat"))
         ELSE cleanup_chat_connection(w)
    /\ UNCHANGED <<streamVars, request, agentVars>>

(* The loop of lines 76-78 asks the iterator for the next connection that *)
(* is not the new one.                                                     *)
join_next(w, e) ==
    LET chat == group(active_connections, "chat")
        others == {k \in (e.it + 1)..Len(chat) : chat[k] # w}
    IN  IF others = {}
        THEN [e EXCEPT !.pc = "receive", !.it = 0, !.cur = 0]
        ELSE LET k == CHOOSE k \in others : \A m \in others : k <= m
             IN  [e EXCEPT !.pc = "join", !.it = k, !.cur = chat[k]]

(* The welcome message is sent, or the send raises: lines 64-78 *)
Welcomed(w) ==
    /\ endpoint[w].pc = "welcome"
    /\ \E outcome \in {"ok", "Exception"} :
         IF outcome = "ok"
         THEN /\ endpoint' = [endpoint EXCEPT ![w] =
                    IF Len(group(active_connections, "chat")) > 1
                    THEN join_next(w, [@ EXCEPT !.it = 0])
                    ELSE [@ EXCEPT !.pc = "receive"]]
              /\ UNCHANGED <<active_connections, chat_users>>
         ELSE cleanup_chat_connection(w)
    /\ UNCHANGED <<streamVars, request, agentVars>>

(* A join notification is sent, or the send raises: line 78 *)
JoinSent(w) ==
    /\ endpoint[w].pc = "join"
    /\ \E outcome \in {"ok", "Exception"} :
         IF outcome = "ok"
         THEN /\ endpoint' = [endpoint EXCEPT ![w] = join_next(w, @)]
              /\ UNCHANGED <<active_connections, chat_users>>
         ELSE cleanup_chat_connection(w)
    /\ UNCHANGED <<streamVars, request, agentVars>>

(* What an await of the main loop other than the broadcast ends in: the   *)
(* next statement, the break of line 144, or the handler of line 145.      *)
LoopOutcomes == {"ok", "WebSocketDisconnect", "Exception"}

(* receive_text() returns a message or raises: lines 84-89 *)
Received(w) ==
    /\ endpoint[w].pc = "receive"
    /\ \E outcome \in LoopOutcomes, content \in {"blank", "text"} :
         CASE outcome = "ok" ->
                /\ endpoint' = [endpoint EXCEPT ![w].pc = "echo", ![w].content = content]
                /\ UNCHANGED <<active_connections, chat_users>>
           [] outcome = "WebSocketDisconnect" -> cleanup_chat_connection(w)
           [] outcome = "Exception" ->
                /\ endpoint' = [endpoint EXCEPT ![w].pc = "error"]
                /\ UNCHANGED <<active_connections, chat_users>>
    /\ UNCHANGED <<streamVars, request, agentVars>>

(* The echo of line 89 is sent or raises; then lines 92-140 *)
Echoed(w) ==
    /\ endpoint[w].pc = "echo"
    /\ \E outcome \in LoopOutcomes :
         CASE outcome = "ok" ->
                IF endpoint[w].content = "blank"
                THEN /\ endpoint' = [endpoint EXCEPT ![w].pc = "reject", ![w].content = None]
                     /\ UNCHANGED <<active_connections, chat_users>>
                ELSE /\ broadcast(w, [endpoint[w] EXCEPT !.content = None],
                                  active_connections, "broadcast", "receive")
                     /\ UNCHANGED chat_users
           [] outcome = "WebSocketDisconnect" -> cleanup_chat_connection(w)
           [] outcome = "Exception" ->
                /\ endpoint' = [endpoint EXCEPT ![w].pc = "error", ![w].content = None]
                /\ UNCHANGED <<active_connections, chat_users>>
    /\ UNCHANGED <<streamVars, request, agentVars>>

(* The error message for a blank message is sent or raises: lines 120-121 *)
Rejected(w) ==
    /\ endpoint[w].pc = "reject"
    /\ \E outcome \in LoopOutcomes :
         CASE outcome = "ok" ->
                /\ endpoint' = [endpoint EXCEPT ![w].pc = "receive"]
                /\ UNCHANGED <<active_connections, chat_users>>
           [] outcome = "WebSocketDisconnect" -> cleanup_chat_connection(w)
           [] outcome = "Exception" ->
                /\ endpoint' = [endpoint EXCEPT ![w].pc = "error"]
                /\ UNCHANGED <<active_connections, chat_users>>
    /\ UNCHANGED <<streamVars, request, agentVars>>

(* The error message of the handler of line 145 is sent, or the send      *)
(* raises out of the handler to line 156.                                  *)
ErrorSent(w) ==
    /\ endpoint[w].pc = "error"
    /\ \E outcome \in {"ok", "Exception"} :
         IF outcome = "ok"
         THEN /\ endpoint' = [endpoint EXCEPT ![w].pc = "receive"]
              /\ UNCHANGED <<active_connections, chat_users>>
         ELSE cleanup_chat_connection(w)
    /\ UNCHANGED <<streamVars, request, agentVars>>

(* send_text of line 84 returns or raises for the connection the          *)
(* broadcast is suspended on; the loop goes on: lines 82-91. A broadcast   *)
(* of a message returns to the main loop, the one of the leave             *)
(* notification to the end of the handler.                                 *)
BroadcastSent(w) ==
    /\ endpoint[w].pc \in {"broadcast", "leave"}
    /\ \E outcome \in {"ok", "Exception"} :
         LET e == endpoint[w]
             sent == [e EXCEPT !.got = Append(@, e.cur),
                               !.disconnected = IF outcome = "ok" THEN @
                                                ELSE Append(@, e.cur)]
         IN  broadcast_next(w, sent, active_connections,
                            IF e.pc = "broadcast" THEN "receive" ELSE "done")
    /\ UNCHANGED <<chat_users, streamVars, request, agentVars>>

InitChat ==
    /\ api_keys = cloud_api_keys
    /\ FreshProcess
    /\ clock = 0
    /\ pc = "idle"
    /\ runs = 0
    /\ mock = NoMock /\ pos = [r |-> 0, g |-> 0] /\ rec = NoRec /\ prev = NoRun

NextChat ==
    \E w \in ChatClients :
        \/ OpenChat(w)
        \/ Accepted(w)
        \/ Welcomed(w)
        \/ JoinSent(w)
        \/ Received(w)
        \/ Echoed(w)
        \/ Rejected(w)
        \/ ErrorSent(w)
        \/ BroadcastSent(w)

SpecChat == InitChat /\ [][NextChat]_vars

(* How many times a broadcast called send_text of connection c *)
sends_to(e, c) == Cardinality({k \in DOMAIN e.got : e.got[k] = c})

(* C25: a broadcast that has returned has sent its message exactly once   *)
(* to every connection that was in the group from its start to its        *)
(* return, whatever joined or left the group meanwhile, and no connection  *)
(* whose send failed is in the group any more.                             *)
C25_BroadcastReachesEveryMemberOnce ==
    \A w \in ChatClients :
        endpoint[w].bcast = "returned"
            => /\ \A c \in endpoint[w].members : sends_to(endpoint[w], c) = 1
               /\ \A c \in Range(endpoint[w].disconnected) :
                      c \notin Range(group(active_connections, "chat"))

(* C29: a client whose chat handler has terminated is neither in the      *)
(* "chat" group nor a key of chat_users, and so the keys of chat_users     *)
(* are at all times exactly the websockets in the "chat" group.            *)
C29_ChatUsersAreTheChatGroup ==
    /\ \A w \in ChatClients :
          endpoint[w].pc = "done"
              => (w \notin Range(group(active_connections, "chat")) /\ w \notin chat_users)
    /\ chat_users = Range(group(active_connections, "chat"))

----------------------------------------------------------------------------
(* ConnectionManager.handle_ml_request with MLWebSocketService as its     *)
(* model service: the handler coroutine and the response-streaming task it *)
(* creates, which share the response queue. response_queue has no maximum  *)
(* size, so put never suspends.                                            *)

(* The updates process_streaming_request puts, in its order *)
Updates == <<"progress 0.0", "progress 0.2", "progress 0.4", "progress 0.7",
             "partial_result", "result">>

(* handle_ml_request is called: lines 142-161, and process_streaming_request *)
(* up to its first sleep, lines 116-123                                      *)
HandleMlRequest ==
    /\ request.pc = "none"
    /\ request' = [request EXCEPT !.pc = "feature_extraction",
                                  !.response_queue = <<Updates[1]>>,
                                  !.stream_task = "get"]
    /\ UNCHANGED <<chatVars, streamVars, agentVars>>

(* process_streaming_request, lines 124-132 *)
FeatureExtraction ==
    /\ request.pc = "feature_extraction"
    /\ request' = [request EXCEPT !.pc = "model_loading",
                                  !.response_queue = Append(@, Updates[2])]
    /\ UNCHANGED <<chatVars, streamVars, agentVars>>

(* process_streaming_request, lines 133-141 *)
ModelLoading ==
    /\ request.pc = "model_loading"
    /\ request' = [request EXCEPT !.pc = "prediction",
                                  !.response_queue = Append(@, Updates[3])]
    /\ UNCHANGED <<chatVars, streamVars, agentVars>>

(* Lines 144-148: the request object is built from the features of the    *)
(* message, which raises when they are not numbers, and classify sleeps;   *)
(* the exception leaves process_streaming_request for line 169 of the      *)
(* handler, which awaits the send of the error message.                    *)
Prediction ==
    /\ request.pc = "prediction"
    /\ \E valid \in BOOLEAN :
         request' = IF valid THEN [request EXCEPT !.pc = "classify"]
                    ELSE [request EXCEPT !.pc = "error", !.raised = TRUE]
    /\ UNCHANGED <<chatVars, streamVars, agentVars>>

(* process_streaming_request, lines 151-167 *)
Classified ==
    /\ request.pc = "classify"
    /\ request' = [request EXCEPT !.pc = "post_processing",
                                  !.response_queue = @ \o <<Updates[4], Updates[5]>>]
    /\ UNCHANGED <<chatVars, streamVars, agentVars>>

(* process_streaming_request, lines 170-177, returns; the handler puts    *)
(* the end of the stream and awaits the task: lines 164-167                *)
PostProcessing ==
    /\ request.pc = "post_processing"
    /\ request' = [request EXCEPT !.pc = "await stream_task",
                                  !.response_queue = @ \o <<Updates[6], "complete">>]
    /\ UNCHANGED <<chatVars, streamVars, agentVars>>

(* await stream_task returns once the task is done: line 167 *)
StreamAwaited ==
    /\ request.pc = "await stream_task"
    /\ request.stream_task = "done"
    /\ request' = [request EXCEPT !.pc = "returned"]
    /\ UNCHANGED <<chatVars, streamVars, agentVars>>

(* The error message is sent or the send raises: lines 171-174; either    *)
(* way the handler is over                                                 *)
RequestErrorSent ==
    /\ request.pc = "error"
    /\ \E outcome \in {"ok", "Exception"} :
         request' = [request EXCEPT !.pc = "returned",
                                    !.sent = IF outcome = "ok" THEN Append(@, "error") ELSE @]
    /\ UNCHANGED <<chatVars, streamVars, agentVars>>

(* stream_ml_response: get returns the head of the queue, and the task    *)
(* awaits its send: lines 188-195                                          *)
StreamGet ==
    /\ request.stream_task = "get"
    /\ request.response_queue # <<>>
    /\ request' = [request EXCEPT !.stream_task = Head(request.response_queue),
                                  !.response_queue = Tail(@)]
    /\ UNCHANGED <<chatVars, streamVars, agentVars>>

(* stream_ml_response: the send returns or raises: lines 195-210 *)
StreamSent ==
    /\ request.stream_task \in Range(Updates) \cup {"complete"}
    /\ \E outcome \in {"ok", "Exception"} :
         request' =
            IF outcome = "ok"
            THEN [request EXCEPT !.sent = Append(@, request.stream_task),
                                 !.stream_task = IF request.stream_task = "complete"
                                                 THEN "done" ELSE "sleep"]
            ELSE [request EXCEPT !.stream_task = "done", !.send_failed = TRUE]
    /\ UNCHANGED <<chatVars, streamVars, agentVars>>

(* stream_ml_response: the sleep of line 205 is over *)
StreamSlept ==
    /\ request.stream_task = "sleep"
    /\ request' = [request EXCEPT !.stream_task = "get"]
    /\ UNCHANGED <<chatVars, streamVars, agentVars>>

InitRequest == InitChat

NextRequest ==
    \/ HandleMlRequest
    \/ FeatureExtraction
    \/ ModelLoading
    \/ Prediction
    \/ Classified
    \/ PostProcessing
    \/ StreamAwaited
    \/ RequestErrorSent
    \/ StreamGet
    \/ StreamSent
    \/ StreamSlept

SpecRequest == InitRequest /\ [][NextRequest]_vars

(* C28: when handle_ml_request has returned, its streaming task is not    *)
(* left blocked on the response queue, whether the model service returned  *)
(* or raised; and when the service returned and every send succeeded, the  *)
(* last message the client was sent is "complete".                         *)
C28_StreamTaskEndsWithTheRequest ==
    request.pc = "returned"
        => /\ ~(request.stream_task = "get" /\ request.response_queue = <<>>)
           /\ (~request.raised /\ ~request.send_failed)
                 => (request.sent # <<>> /\ request.sent[Len(request.sent)] = "complete")

----------------------------------------------------------------------------
(* The prediction streams of MLWebSocketService, as the ML endpoint uses  *)
(* them: one handler coroutine per websocket, which calls the service one  *)
(* operation at a time, and one task per stream started. The three         *)
(* registries of the service are the fields of a record here, so that an   *)
(* operation is a function of them up to the await that suspends it.       *)

StreamIds == {"s1", "s2"}

Service == [active_streams |-> active_streams, client_streams |-> client_streams,
            tasks |-> tasks]

(* del d[k] *)
without(d, k) == [x \in DOMAIN d \ {k} |-> d[x]]

(* d[k] = v *)
with(d, k, v) == [x \in DOMAIN d \cup {k} |-> IF x = k THEN v ELSE d[x]]

(* task.cancel(): the CancelledError is thrown into the coroutine at its  *)
(* next step; a task that is done is left alone                            *)
cancel(task) ==
    CASE task.state = "pending" -> [task EXCEPT !.state = "cancelled unstarted"]
      [] task.state = "running" -> [task EXCEPT !.state = "cancelling"]
      [] OTHER -> task

(* stop_stream, lines 261-270, after the task has been awaited *)
stop_stream_cleanup(S, stream_id, websocket) ==
    [S EXCEPT !.client_streams =
                  IF websocket \in DOMAIN @
                  THEN [@ EXCEPT ![websocket] = remove(@, stream_id)] ELSE @,
              !.active_streams = without(@, stream_id)]

(* stop_stream(stream_id, websocket) up to its await, if it has one: what *)
(* it leaves of the service and the task it awaits, or 0 when it returned  *)
stop_stream(S, stream_id, websocket) ==
    IF stream_id \notin DOMAIN S.active_streams
    THEN [S |-> S, task |-> 0, cancelled |-> {}]
    ELSE IF \/ websocket \notin DOMAIN S.client_streams
            \/ stream_id \notin Range(S.client_streams[websocket])
    THEN [S |-> S, task |-> 0, cancelled |-> {}]
    ELSE LET task == S.active_streams[stream_id] IN
         IF S.tasks[task].state # "done"
         THEN [S |-> [S EXCEPT !.tasks[task] = cancel(@)], task |-> task,
               cancelled |-> {task}]
         ELSE [S |-> stop_stream_cleanup(S, stream_id, websocket), task |-> 0,
               cancelled |-> {}]

(* start_streaming, lines 198-230, after its stop_stream has returned *)
start_streaming_register(S, stream_id, websocket) ==
    LET stream_task == Len(S.tasks) + 1 IN
    [S EXCEPT !.tasks = Append(@, [websocket |-> websocket, stream_id |-> stream_id,
                                   state |-> "pending", cleaned |-> FALSE]),
              !.active_streams = with(@, stream_id, stream_task),
              !.client_streams =
                  IF websocket \in DOMAIN @
                  THEN [@ EXCEPT ![websocket] = Append(@, stream_id)]
                  ELSE with(@, websocket, <<stream_id>>)]

(* The loop of stop_stream_for_client over its copy of the list, lines    *)
(* 286-291, up to the first stop_stream that has to await its task         *)
RECURSIVE stop_stream_loop(_, _, _, _)
stop_stream_loop(S, stream_ids, websocket, cancelled) ==
    IF stream_ids = <<>>
    THEN [S |-> [S EXCEPT !.client_streams = without(@, websocket)], task |-> 0,
          stream_id |-> None, stream_ids |-> <<>>, cancelled |-> cancelled]
    ELSE LET r == stop_stream(S, Head(stream_ids), websocket) IN
         IF r.task # 0
         THEN [S |-> r.S, task |-> r.task, stream_id |-> Head(stream_ids),
               stream_ids |-> Tail(stream_ids), cancelled |-> cancelled \cup r.cancelled]
         ELSE stop_stream_loop(r.S, Tail(stream_ids), websocket, cancelled)

(* The finally clause of _stream_predictions, lines 415-421 *)
stream_finally(S, task) ==
    LET stream_id == S.tasks[task].stream_id
        websocket == S.tasks[task].websocket
    IN  [S EXCEPT !.active_streams = without(@, stream_id),
                  !.client_streams =
                      IF websocket \in DOMAIN @
                      THEN [@ EXCEPT ![websocket] = remove(@, stream_id)] ELSE @,
                  !.tasks[task] = [@ EXCEPT !.state = "done", !.cleaned = TRUE]]

(* The service and the handler of w after a step of that handler *)
Serve(w, S, e) ==
    /\ active_streams' = S.active_streams
    /\ client_streams' = S.client_streams
    /\ tasks' = S.tasks
    /\ ml_endpoint' = [ml_endpoint EXCEPT ![w] = e]

(* The handler of w goes on once the stop_stream it is in has returned:   *)
(* start_streaming registers its new stream, stop_stream_for_client goes   *)
(* on with its loop, and the handler awaits the next message, unless the   *)
(* client had disconnected.                                                *)
Stopped(w, S, e) ==
    CASE e.op = "start_streaming" ->
            Serve(w, start_streaming_register(S, e.stream_id, w),
                  [NoMlEndpoint EXCEPT !.pc = "receive"])
      [] e.op = "stop_stream" ->
            Serve(w, S, [NoMlEndpoint EXCEPT !.pc = "receive"])
      [] e.op \in {"stop_stream_for_client", "disconnect"} ->
            LET r == stop_stream_loop(S, e.stream_ids, w, e.cancelled) IN
            Serve(w, r.S,
                  IF r.task # 0
                  THEN [e EXCEPT !.pc = "await task", !.task = r.task,
                                 !.stream_id = r.stream_id, !.stream_ids = r.stream_ids,
                                 !.cancelled = r.cancelled]
                  ELSE [NoMlEndpoint EXCEPT
                           !.pc = IF e.op = "disconnect" THEN "done" ELSE "receive",
                           !.cancelled = r.cancelled,
                           !.returned = "stop_stream_for_client"])

(* A client opens /ws/ml/{model_type}: lines 64-81 *)
OpenMl(w) ==
    /\ ml_endpoint[w].pc = "start"
    /\ ml_endpoint' = [ml_endpoint EXCEPT ![w].pc = "receive"]
    /\ active_connections' = connect(active_connections, w, "ml_model")
    /\ UNCHANGED <<chat_users, endpoint, active_streams, client_streams, tasks, request,
                   agentVars>>

(* A start_stream message: start_ml_stream calls start_streaming, which   *)
(* first stops the stream of that id: routes, lines 166-178, and service,  *)
(* lines 196-230                                                           *)
StartStreaming(w) ==
    /\ ml_endpoint[w].pc = "receive"
    /\ Len(tasks) < MaxTasks
    /\ \E stream_id \in StreamIds :
         LET r == stop_stream(Service, stream_id, w)
             e == [ml_endpoint[w] EXCEPT !.op = "start_streaming", !.stream_id = stream_id,
                                         !.returned = None]
         IN  IF r.task # 0
             THEN Serve(w, r.S, [e EXCEPT !.pc = "await task", !.task = r.task])
             ELSE Stopped(w, r.S, e)
    /\ UNCHANGED <<chatVars, request, agentVars>>

(* A stop_stream message with a stream id: routes, lines 213-223 *)
StopStream(w) ==
    /\ ml_endpoint[w].pc = "receive"
    /\ \E stream_id \in StreamIds :
         LET r == stop_stream(Service, stream_id, w)
             e == [ml_endpoint[w] EXCEPT !.op = "stop_stream", !.stream_id = stream_id,
                                         !.returned = None]
         IN  IF r.task # 0
             THEN Serve(w, r.S, [e EXCEPT !.pc = "await task", !.task = r.task])
             ELSE Stopped(w, r.S, e)
    /\ UNCHANGED <<chatVars, request, agentVars>>

(* stop_stream_for_client up to its first await: lines 279-287 *)
stop_stream_for_client(w, e) ==
    IF w \notin DOMAIN client_streams
    THEN Serve(w, Service,
               [NoMlEndpoint EXCEPT
                   !.pc = IF e.op = "disconnect" THEN "done" ELSE "receive",
                   !.returned = "stop_stream_for_client"])
    ELSE Stopped(w, Service, [e EXCEPT !.stream_ids = client_streams[w]])

(* A stop_stream message without a stream id: routes, lines 206-212 *)
StopStreamForClient(w) ==
    /\ ml_endpoint[w].pc = "receive"
    /\ stop_stream_for_client(w, [ml_endpoint[w] EXCEPT !.op = "stop_stream_for_client",
                                                        !.cancelled = {}, !.returned = None])
    /\ UNCHANGED <<chatVars, request, agentVars>>

(* receive_text raises WebSocketDisconnect: routes, lines 113-115 *)
DisconnectMl(w) ==
    /\ ml_endpoint[w].pc = "receive"
    /\ active_connections' = disconnect(active_connections, w, "ml_model")
    /\ stop_stream_for_client(w, [ml_endpoint[w] EXCEPT !.op = "disconnect",
                                                        !.cancelled = {}, !.returned = None])
    /\ UNCHANGED <<chat_users, endpoint, request, agentVars>>

(* await task of stop_stream returns, the task being done: lines 257-270 *)
TaskAwaited(w) ==
    /\ ml_endpoint[w].pc = "await task"
    /\ tasks[ml_endpoint[w].task].state = "done"
    /\ Stopped(w, stop_stream_cleanup(Service, ml_endpoint[w].stream_id, w), ml_endpoint[w])
    /\ UNCHANGED <<chatVars, request, agentVars>>

(* The first step of a task: _stream_predictions up to the await of its   *)
(* start notification, line 322                                            *)
TaskStarts(t) ==
    /\ t \in DOMAIN tasks
    /\ tasks[t].state = "pending"
    /\ tasks' = [tasks EXCEPT ![t].state = "running"]
    /\ UNCHANGED <<active_streams, client_streams, ml_endpoint, chatVars, request, agentVars>>

(* The first step of a task cancelled before it: the CancelledError is    *)
(* thrown into a coroutine that has not entered its try statement          *)
TaskNeverStarts(t) ==
    /\ t \in DOMAIN tasks
    /\ tasks[t].state = "cancelled unstarted"
    /\ tasks' = [tasks EXCEPT ![t].state = "done"]
    /\ UNCHANGED <<active_streams, client_streams, ml_endpoint, chatVars, request, agentVars>>

(* The duration is over, or a send raised: the last await of lines        *)
(* 360-411 returns and the finally clause runs                             *)
TaskFinishes(t) ==
    /\ t \in DOMAIN tasks
    /\ tasks[t].state = "running"
    /\ LET S == stream_finally(Service, t) IN
       /\ active_streams' = S.active_streams
       /\ client_streams' = S.client_streams
       /\ tasks' = S.tasks
    /\ UNCHANGED <<ml_endpoint, chatVars, request, agentVars>>

(* The CancelledError reaches the task, which awaits the send of its      *)
(* cancellation notice: lines 377-391                                      *)
TaskCancelled(t) ==
    /\ t \in DOMAIN tasks
    /\ tasks[t].state = "cancelling"
    /\ tasks' = [tasks EXCEPT ![t].state = "cancelled"]
    /\ UNCHANGED <<active_streams, client_streams, ml_endpoint, chatVars, request, agentVars>>

(* The notice is sent or not; the task raises on and its finally clause   *)
(* runs: lines 392-395 and 415-421                                         *)
TaskCancelledEnds(t) ==
    /\ t \in DOMAIN tasks
    /\ tasks[t].state = "cancelled"
    /\ LET S == stream_finally(Service, t) IN
       /\ active_streams' = S.active_streams
       /\ client_streams' = S.client_streams
       /\ tasks' = S.tasks
    /\ UNCHANGED <<ml_endpoint, chatVars, request, agentVars>>

InitStreams == InitChat

NextStreams ==
    \/ \E w \in StreamClients :
        \/ OpenMl(w)
        \/ StartStreaming(w)
        \/ StopStream(w)
        \/ StopStreamForClient(w)
        \/ DisconnectMl(w)
        \/ TaskAwaited(w)
    \/ \E t \in 1..MaxTasks :
        \/ TaskStarts(t)
        \/ TaskNeverStarts(t)
        \/ TaskFinishes(t)
        \/ TaskCancelled(t)
        \/ TaskCancelledEnds(t)

SpecStreams == InitStreams /\ [][NextStreams]_vars

(* The tasks of a stream id that are not done *)
running(stream_id) ==
    {t \in DOMAIN tasks : tasks[t].stream_id = stream_id /\ tasks[t].state # "done"}

(* C26: start_streaming stops the stream registered under its stream id   *)
(* before it starts the new one, whichever client had started it, so at    *)
(* any time at most one task per stream id is running, and it is the one   *)
(* active_streams holds for that id.                                       *)
C26_OneRunningTaskPerStreamId ==
    \A stream_id \in StreamIds :
        /\ Cardinality(running(stream_id)) <= 1
        /\ running(stream_id) # {}
              => (stream_id \in DOMAIN active_streams
                  /\ active_streams[stream_id] \in running(stream_id))

(* The tasks started for a websocket *)
started_for(w) == {t \in DOMAIN tasks : tasks[t].websocket = w}

(* C27: once stop_stream_for_client(websocket) has returned, no task      *)
(* started for the websocket is running or registered, the websocket has   *)
(* no entry in client_streams, and the call has cancelled no task of       *)
(* another client.                                                         *)
C27_ClientStopsItsOwnStreamsOnly ==
    \A w \in StreamClients :
        ml_endpoint[w].returned = "stop_stream_for_client"
            => /\ \A t \in started_for(w) : tasks[t].state = "done"
               /\ \A stream_id \in DOMAIN active_streams :
                      active_streams[stream_id] \notin started_for(w)
               /\ w \notin DOMAIN client_streams
               /\ ml_endpoint[w].cancelled \subseteq started_for(w)

(* C30: every stream id listed for a websocket is a key of active_streams *)
(* whose task was started for that websocket and has not run its clean-up, *)
(* every key of active_streams is listed for exactly one websocket, and no *)
(* list holds a stream id twice.                                           *)
C30_RegistriesAgree ==
    /\ \A w \in DOMAIN client_streams :
          \A k \in DOMAIN client_streams[w] :
             LET stream_id == client_streams[w][k] IN
             /\ stream_id \in DOMAIN active_streams
             /\ tasks[active_streams[stream_id]].websocket = w
             /\ ~tasks[active_streams[stream_id]].cleaned
             /\ \A m \in DOMAIN client_streams[w] :
                   client_streams[w][m] = stream_id => m = k
    /\ \A stream_id \in DOMAIN active_streams :
          Cardinality({w \in DOMAIN client_streams :
                          stream_id \in Range(client_streams[w])}) = 1

(* No stream id has been used by two websockets *)
IdsNotShared ==
    \A t1, t2 \in DOMAIN tasks :
        tasks[t1].stream_id = tasks[t2].stream_id => tasks[t1].websocket = tasks[t2].websocket

====
